---- MODULE Spec2Model ----
(***************************************************************************)
(* A model of MicroVisionAI's orchestration layer.                         *)
(*                                                                         *)
(*   SpecStream  macro_stream (app/routes/chat_routes.py) driving          *)
(*               generate_improved_prompt and generate_macro_from_prompt   *)
(*               (app/services/atlas_service.py).                          *)
(*   SpecBatch   execute_image_macro (app/services/imagej_service.py) with *)
(*               parse_saved_files, create_zip_file and cleanup_temp_files *)
(*               (app/services/file_service.py), called by                 *)
(*               handle_execute_macro (app/routes/image_routes.py).        *)
(*                                                                         *)
(* Text is a sequence of tokens.  The markers the code searches for are    *)
(* single tokens, so "marker in text" is membership of the token.          *)
(***************************************************************************)
EXTENDS Integers, Sequences, FiniteSets, TLC

\* ------------------------------------------------------------------ bounds
\* Deltas the completion backend delivers in one generation, at most.
MaxDeltas == 4
\* Chunks the prompt-improvement backend delivers, at most.
MaxChunks == 2
\* Files of one batch request, at most.
MaxFiles == 2
\* the longest path list handed to create_zip_file on its own
MaxPaths == 3
\* the timeout of a polling wait, in check intervals (120 s and 60 s in the code)
WaitTimeout == 2
\* the largest size the awaited file takes
MaxSize == 2
\* the requests served concurrently by one process
MaxRequests == 2
\* the tokens of the content handed to clean_section_content
MaxContent == 4
\* the shutdown calls of one process
MaxShutdowns == 3
\* the files of one upload request
MaxUploads == 2
\* the cleanup tasks scheduled for one path
MaxTasks == 2
\* the longest delay of a cleanup task, and the time the clock runs to
MaxDelay == 2
SweepHorizon == 3
\* image_service.py line 109: the polls of the stability window
StabilityPolls == 10

\* ------------------------------------------------------------------ text
DESCRIPTION == "[DESCRIPTION]"
EXPLANATION == "[EXPLANATION]"
\* the code-fence delimiter, three backquotes
FENCE == "<fence>"
JAVASCRIPT == "javascript"
COMMENT == "//"
NL == "\n"
SP == " "
WORD == "x"

Whitespace == {NL, SP}

\* content.replace(tok, "")
RECURSIVE Remove(_, _)
Remove(s, tok) ==
  IF s = <<>> THEN <<>>
  ELSE IF Head(s) = tok THEN Remove(Tail(s), tok)
  ELSE <<Head(s)>> \o Remove(Tail(s), tok)

\* content.replace(a + b, ""), a single left-to-right pass
RECURSIVE RemovePair(_, _, _)
RemovePair(s, a, b) ==
  IF Len(s) < 2 THEN s
  ELSE IF s[1] = a /\ s[2] = b THEN RemovePair(SubSeq(s, 3, Len(s)), a, b)
  ELSE <<s[1]>> \o RemovePair(Tail(s), a, b)

RECURSIVE LStrip(_)
LStrip(s) ==
  IF s # <<>> /\ Head(s) \in Whitespace THEN LStrip(Tail(s)) ELSE s

RECURSIVE RStrip(_)
RStrip(s) ==
  IF s # <<>> /\ s[Len(s)] \in Whitespace THEN RStrip(SubSeq(s, 1, Len(s) - 1)) ELSE s

\* str.strip()
Strip(s) == RStrip(LStrip(s))

\* content.split("\n"): the lines, at least one
RECURSIVE SplitLines(_, _)
SplitLines(s, cur) ==
  IF s = <<>> THEN <<cur>>
  ELSE IF Head(s) = NL THEN <<cur>> \o SplitLines(Tail(s), <<>>)
  ELSE SplitLines(Tail(s), Append(cur, Head(s)))

\* "\n".join(lines)
RECURSIVE JoinLines(_)
JoinLines(ls) ==
  IF ls = <<>> THEN <<>>
  ELSE IF Len(ls) = 1 THEN ls[1]
  ELSE ls[1] \o <<NL>> \o JoinLines(Tail(ls))

\* [line for line in lines if line.strip()]
RECURSIVE NonBlank(_)
NonBlank(ls) ==
  IF ls = <<>> THEN <<>>
  ELSE IF Strip(Head(ls)) # <<>> THEN <<Head(ls)>> \o NonBlank(Tail(ls))
  ELSE NonBlank(Tail(ls))

Contains(s, tok) == \E i \in 1..Len(s) : s[i] = tok

SyntheticComment == <<COMMENT, "Generated ImageJ Macro">>

\* ------------------------------------------------------------------ SectionParser
Sections == <<"description", "macro_script", "explanation">>

SectionIndex(sec) == CHOOSE i \in 1..Len(Sections) : Sections[i] = sec

get_next_section(sec) == Sections[(SectionIndex(sec) % Len(Sections)) + 1]

\* Faulty variant of handle_section_transition: a code fence ends any section.
handle_section_transition_AnyFence(content, sec) ==
  \/ Contains(content, DESCRIPTION)
  \/ Contains(content, FENCE)
  \/ Contains(content, EXPLANATION)

handle_section_transition(content, sec) ==
  \/ Contains(content, DESCRIPTION)
  \/ (Contains(content, FENCE) /\ sec = "description")
  \/ Contains(content, EXPLANATION)

\* Faulty variant of clean_section_content: only the fence with its language tag
\* is removed from a script.
clean_section_content_KeepsFence(sec, content) ==
  LET c0 == Strip(Remove(Remove(content, DESCRIPTION), EXPLANATION))
  IN IF sec = "macro_script"
     THEN LET c1 == RemovePair(c0, FENCE, JAVASCRIPT)
              cleaned == NonBlank(SplitLines(c1, <<>>))
              lines == IF cleaned # <<>>
                          /\ ~(LStrip(cleaned[1]) # <<>> /\ Head(LStrip(cleaned[1])) = COMMENT)
                       THEN <<SyntheticComment>> \o cleaned
                       ELSE cleaned
          IN JoinLines(lines)
     ELSE Strip(c0)

clean_section_content(sec, content) ==
  LET c0 == Strip(Remove(Remove(content, DESCRIPTION), EXPLANATION))
  IN IF sec = "macro_script"
     THEN LET c1 == Remove(RemovePair(c0, FENCE, JAVASCRIPT), FENCE)
              cleaned == NonBlank(SplitLines(c1, <<>>))
              lines == IF cleaned # <<>>
                          /\ ~(LStrip(cleaned[1]) # <<>> /\ Head(LStrip(cleaned[1])) = COMMENT)
                       THEN <<SyntheticComment>> \o cleaned
                       ELSE cleaned
          IN JoinLines(lines)
     ELSE Strip(c0)

SectionChange(sec, content) ==
  [event |-> "section_change", data |-> [section |-> sec, content |-> content]]

Message(chunk, sec) ==
  [event |-> "message", data |-> [content |-> chunk, section |-> sec]]

Complete == [event |-> "complete", data |-> [message |-> "Macro generation complete"]]

ErrorEvent(msg) == [event |-> "error", data |-> [error |-> msg]]

process_section_change(sec, content) ==
  <<SectionChange(sec, Strip(clean_section_content(sec, content)))>>

\* format_event: the JSON envelope {"event": ..., "data": ...}
\* Faulty variant of format_event: the payload is sent bare under its kind.
format_event_Bare(kind, data) == [event |-> kind] @@ data

format_event(kind, data) == [event |-> kind, data |-> data]

\* The deltas the backend may deliver.
DeltaChoices ==
  { <<WORD>>,
    <<DESCRIPTION>>,
    <<FENCE, JAVASCRIPT, NL>>,
    <<FENCE>>,
    <<EXPLANATION>>,
    <<NL, WORD, NL>>,
    <<COMMENT, WORD, NL>> }

\* The chunks the prompt-improvement backend may deliver.
ChunkChoices == {"p", "q"}

UserInput == "u"

\* ------------------------------------------------------------------ filenames
\* A filename is a sequence of characters.
AllowedChars == {"a", "b", "t", "r", "e", "g", "_", ".", "-"}

RECURSIVE ReplaceTok(_, _, _)
\* s.replace(a, b) for single characters
ReplaceTok(s, a, b) ==
  IF s = <<>> THEN <<>>
  ELSE <<IF Head(s) = a THEN b ELSE Head(s)>> \o ReplaceTok(Tail(s), a, b)

RECURSIVE SplitWords(_, _)
\* s.split(): the maximal runs of non-blank characters
SplitWords(s, cur) ==
  IF s = <<>> THEN (IF cur = <<>> THEN <<>> ELSE <<cur>>)
  ELSE IF Head(s) = SP
       THEN (IF cur = <<>> THEN <<>> ELSE <<cur>>) \o SplitWords(Tail(s), <<>>)
       ELSE SplitWords(Tail(s), Append(cur, Head(s)))

RECURSIVE JoinWith(_, _)
\* sep.join(words)
JoinWith(ws, sep) ==
  IF ws = <<>> THEN <<>>
  ELSE IF Len(ws) = 1 THEN ws[1]
  ELSE ws[1] \o <<sep>> \o JoinWith(Tail(ws), sep)

RECURSIVE KeepAllowed(_)
\* re.sub("[^A-Za-z0-9_.-]", "", s)
KeepAllowed(s) ==
  IF s = <<>> THEN <<>>
  ELSE IF Head(s) \in AllowedChars THEN <<Head(s)>> \o KeepAllowed(Tail(s))
  ELSE KeepAllowed(Tail(s))

RECURSIVE StripDotUnderscore(_)
\* s.strip("._")
StripDotUnderscore(s) ==
  IF s # <<>> /\ Head(s) \in {".", "_"} THEN StripDotUnderscore(Tail(s))
  ELSE IF s # <<>> /\ s[Len(s)] \in {".", "_"}
       THEN StripDotUnderscore(SubSeq(s, 1, Len(s) - 1))
       ELSE s

\* werkzeug.utils.secure_filename, on ASCII input
secure_filename(filename) ==
  StripDotUnderscore(KeepAllowed(
    JoinWith(SplitWords(ReplaceTok(filename, "/", SP), <<>>), "_")))

\* os.path.splitext(name)[0]: cut at the last dot that follows a non-dot character
splitext_root(name) ==
  LET dots == {i \in 1..Len(name) : name[i] = "."}
  IN IF dots = {} THEN name
     ELSE LET last == CHOOSE i \in dots : \A j \in dots : j <= i
          IN IF \E k \in 1..(last - 1) : name[k] # "."
             THEN SubSeq(name, 1, last - 1)
             ELSE name

\* name.startswith(stem), which is what the pattern stem* matches
StartsWith(name, stem) ==
  Len(stem) <= Len(name) /\ SubSeq(name, 1, Len(stem)) = stem

\* ------------------------------------------------------------------ paths
\* A path string names a file of the working directory (rel) under a spelling:
\* root "canon" is the canonical absolute spelling of the working directory,
\* "alias" one that passes through a symbolic link; dbl says that the string
\* holds a doubled separator.
Roots == {"canon", "alias"}

PathStr(root, dbl, rel) == [root |-> root, dbl |-> dbl, rel |-> rel]

\* s.replace('//', '/')
NormalizeSeparators(p) == [p EXCEPT !.dbl = FALSE]

\* Path(s).resolve()
Resolve(p) == [p EXCEPT !.root = "canon", !.dbl = FALSE]

\* Path(s): pathlib collapses doubled separators and nothing else
AsPath(p) == [p EXCEPT !.dbl = FALSE]

TopLevel(name) == [dir |-> "", name |-> name]
InStatistics(name) == [dir |-> "Statistics", name |-> name]

\* A line of the execution log: tag "OUTPUT_FILE:" followed by a path, or other text.
OutputLine(p) == [tag |-> "OUTPUT_FILE:", path |-> p]
OtherLine == [tag |-> "print", path |-> PathStr("canon", FALSE, TopLevel(<<>>))]

\* A file that may be absent: whether it exists, and its content.
NoFile == [exists |-> FALSE, content |-> <<>>]
FileOf(content) == [exists |-> TRUE, content |-> content]

\* The file system of the working directory: existing files and their sizes.
Exists(fsx, rel) == rel \in DOMAIN fsx

WriteFile(fsx, rel, size) ==
  [r \in (DOMAIN fsx) \cup {rel} |-> IF r = rel THEN size ELSE fsx[r]]

RECURSIVE WriteAll(_, _)
WriteAll(fsx, writes) ==
  IF writes = {} THEN fsx
  ELSE LET w == CHOOSE w \in writes : TRUE
       IN WriteAll(WriteFile(fsx, w.rel, w.size), writes \ {w})

EmptyFs == [r \in {} |-> 0]

\* ------------------------------------------------------------------ OutputCollector
\* parse_saved_files(output, temp_dir, original_filename): the set it builds.
\* The declared strategy reads output_log.txt of the working directory (logf);
\* the parameter output is not read.
parse_saved_files(output, fsx, logf, root, original_filename) ==
  LET lines == logf.content
      declared == IF ~logf.exists THEN {}
                  ELSE {Resolve(NormalizeSeparators(lines[k].path)) :
                          k \in {k \in 1..Len(lines) : lines[k].tag = "OUTPUT_FILE:"}}
      valid == {p \in declared : Exists(fsx, p.rel) /\ fsx[p.rel] > 0}
      scanned == {PathStr(root, FALSE, r) :
                    r \in {r \in DOMAIN fsx :
                             StartsWith(r.name, original_filename) /\ fsx[r] > 0}}
  IN valid \cup scanned

\* list(files): the orders in which a set may be listed
Listings(set) ==
  {seq \in [1..Cardinality(set) -> set] : \A i, j \in DOMAIN seq : seq[i] = seq[j] => i = j}

\* ------------------------------------------------------------------ ArchiveBuilder
ZipFailed == [ok |-> FALSE, members |-> <<>>]

RECURSIVE ZipLoop_StoresAbsolute(_, _, _, _, _)
\* Faulty variant of ZipLoop: a path that is not under the parent of the archive
\* is stored under its full name.
ZipLoop_StoresAbsolute(paths, seen, members, fsx, root) ==
  IF paths = <<>> THEN [ok |-> TRUE, members |-> members]
  ELSE LET path == AsPath(Head(paths))
       IN IF ~Exists(fsx, path.rel)
          THEN ZipLoop_StoresAbsolute(Tail(paths), seen, members, fsx, root)
          ELSE IF path \in seen
          THEN ZipLoop_StoresAbsolute(Tail(paths), seen, members, fsx, root)
          ELSE ZipLoop_StoresAbsolute(Tail(paths), seen \cup {path},
                 Append(members, IF path.root # root THEN path ELSE path.rel), fsx, root)

RECURSIVE ZipLoop(_, _, _, _, _)
\* _create_zip: the loop over the paths; relative_to raises for a path that is
\* not spelled under the parent of the archive.
ZipLoop(paths, seen, members, fsx, root) ==
  IF paths = <<>> THEN [ok |-> TRUE, members |-> members]
  ELSE LET path == AsPath(Head(paths))
       IN IF ~Exists(fsx, path.rel) THEN ZipLoop(Tail(paths), seen, members, fsx, root)
          ELSE IF path \in seen THEN ZipLoop(Tail(paths), seen, members, fsx, root)
          ELSE IF path.root # root THEN ZipFailed
          ELSE ZipLoop(Tail(paths), seen \cup {path}, Append(members, path.rel), fsx, root)

\* create_zip_file(file_paths, zip_filename) when no input or output error occurs
create_zip_file(file_paths, fsx, root) ==
  IF file_paths = <<>> THEN ZipFailed
  ELSE ZipLoop(file_paths, {}, <<>>, fsx, root)

\* ------------------------------------------------------------------ batch inputs
\* The uploads a batch may hold: two names that sanitize to the same name, the
\* second of them an empty upload, and a name that sanitizes to nothing.
UploadChoices ==
  { [filename |-> <<"a", " ", "b", ".", "t">>, size |-> 1],
    [filename |-> <<"a", "_", "b", ".", "t">>, size |-> 0],
    [filename |-> <<"#">>, size |-> 1] }

Batches == UNION {[1..n -> UploadChoices] : n \in 1..MaxFiles}

\* What one invocation of the engine may do for a job: raise (after writing or
\* not), or return its log text after writing files and, or not, appending
\* lines to output_log.txt.
EngineBehaviours(root, stem) ==
  LET A == InStatistics(stem \o <<"_", "r">>)
      E == InStatistics(stem \o <<"_", "e">>)
      R == InStatistics(<<"r">>)
      G == InStatistics(<<"g">>)
      decl(rel) == OutputLine(PathStr(root, TRUE, rel))
  IN { [raises |-> TRUE,  writes |-> {}, output |-> <<>>, logged |-> <<>>],
       [raises |-> TRUE,  writes |-> {[rel |-> A, size |-> 1]}, output |-> <<>>,
        logged |-> <<>>],
       [raises |-> FALSE, writes |-> {}, output |-> <<>>, logged |-> <<>>],
       [raises |-> FALSE, writes |-> {[rel |-> A, size |-> 1]},
        output |-> <<decl(A)>>, logged |-> <<>>],
       [raises |-> FALSE, writes |-> {[rel |-> R, size |-> 1]},
        output |-> <<decl(R), OtherLine>>, logged |-> <<>>],
       [raises |-> FALSE, writes |-> {[rel |-> R, size |-> 1]},
        output |-> <<>>, logged |-> <<decl(R), decl(G), OtherLine>>],
       [raises |-> FALSE, writes |-> {[rel |-> A, size |-> 1]},
        output |-> <<>>, logged |-> <<decl(A)>>],
       [raises |-> FALSE, writes |-> {[rel |-> E, size |-> 0]},
        output |-> <<>>, logged |-> <<decl(E)>>] }

VARIABLES
  \* macro_stream
  spc,              \* where macro_stream stands
  improve_prompt,   \* the improve_prompt flag of the request
  chunks,           \* the improved-prompt chunks received so far
  prompt,           \* the prompt handed to generate_macro_from_prompt
  sent,             \* the events macro_stream has sent to the client
  connected,        \* whether the client is still connected
  observed,         \* whether macro_stream has seen the client disconnected
  pending,          \* what the last resumption of the generator gave macro_stream
  \* generate_macro_from_prompt
  gpc,              \* where the generator stands
  current_section,
  section_content,
  deltas,           \* the deltas consumed so far
  events,           \* the events the generator has yielded so far
  upstream,         \* "ok", or where the backend raised
  \* handle_execute_macro and execute_image_macro
  bpc,              \* where the batch request stands
  files,            \* the uploaded files of the request
  macro_script,
  execute_macro,    \* the form field that asks for the macro to be run
  temp_dir,         \* the spelling of the working directory, once created
  dir_exists,       \* whether the working directory exists on disk
  idx,              \* the file the loop of execute_image_macro is at
  fs,               \* the files of the working directory and their sizes
  logfile,          \* the lines of output_log.txt in the working directory
  output,           \* the text the last engine invocation returned
  output_files,
  error_logs,
  archive,          \* results.zip: its members, once written
  result,           \* how execute_image_macro ended
  response,         \* what handle_execute_macro answered
  background_tasks, \* the tasks added to the BackgroundTasks of the request
  cpc,              \* where the cleanup task stands
  invoked,          \* the scripts the engine was invoked with
  raised_at,        \* per file, the step that raised, if any
  collected,        \* per file, the list parse_saved_files returned, once it has
  \* create_zip_file called on its own
  zpc,              \* where the call stands
  zip_paths,        \* file_paths
  zip_root,         \* the spelling of the parent of zip_filename
  zip_fs,           \* the files that exist while the list is visited
  zip_result,       \* what the call returned
  \* a polling wait
  wkind,            \* which function waits
  wpc,              \* where it stands
  now,              \* the clock of the event loop, in check intervals
  wfile,            \* the awaited file: Absent, or its size
  file_size,        \* _wait_for_file: the size seen by the previous poll
  polls,            \* _wait_for_file: polls of the stability window made so far
  woutcome,         \* how the wait ended
  last_poll,        \* the size the previous poll of the window observed, Absent before
  stable_seen,      \* two consecutive polls of the window saw one non-zero size
  ever_existed,     \* the file existed at some time of the wait
  ever_content,     \* the file had content at some time of the wait
  \* concurrent requests on the event loop of one process
  rkind,            \* per request: "batch" or "preview"
  rpc,              \* per request: where its coroutine stands
  rleft,            \* per batch request: the files still to process
  loop_owner,       \* the request whose synchronous call occupies the loop thread, or 0
  in_engine,        \* the requests whose runMacro call is in progress
  invocations,      \* the number of runMacro calls that have returned
  \* the engine handle of the process
  lpc,              \* where initialize, or the process, stands
  attempt,          \* the attempt initialize is at
  ij,               \* self.ij: 0 for None, or the context it refers to
  classes,          \* whether self.IJ and self.BF are set
  contexts,         \* the number of engine contexts created so far
  disposals,        \* per context, the number of times it was disposed
  shutdowns,        \* the number of shutdown calls made
  \* clean_section_content called for one section_change event
  kpc,              \* where the call stands
  kpath,            \* "transition" or "flush": which yield builds the event
  ksection,         \* the section the event is for
  kcontent,         \* section_content when the event is built
  kevent,           \* the event, once built
  \* the metadata store and the handlers that use it
  hpc,              \* where the handler of the request stands
  request,          \* the request: an upload, a deletion or a preview
  upload_idx,       \* the file the loop of handle_initial_upload is at
  results,          \* the entries handle_initial_upload has appended
  db,               \* the committed records of the metadata store
  session,          \* the changes of the session that are not yet committed
  disk,             \* the paths that exist, of those the records name
  upload_tasks,     \* the directories whose removal is scheduled
  answer,           \* what the client is answered
  found,            \* the store and the disk as the request found them
  faults,           \* the steps at which a collaborator raised
  \* cleanup_temp_files, called for one path by several tasks
  sweep_pc,         \* per task: where it stands
  sweep_due,        \* per task: the time its delay is over
  sweep_clock,      \* the time
  sweep_target,     \* what the path is: a directory, a file, or gone
  sweep_log         \* per task: what it logged

streamVars == <<spc, improve_prompt, chunks, prompt, sent, connected, observed, pending,
                gpc, current_section, section_content, deltas, events, upstream>>

genVars == <<gpc, current_section, section_content, deltas, events, upstream>>

\* macro_stream's own variables, which a resumption of the generator leaves alone
msVars == <<spc, improve_prompt, chunks, prompt, sent, connected, observed>>

batchVars == <<bpc, files, macro_script, execute_macro, temp_dir, dir_exists, idx, fs, logfile, output,
               output_files, error_logs, archive, result, response, background_tasks,
               cpc, invoked, raised_at, collected>>

zipVars == <<zpc, zip_paths, zip_root, zip_fs, zip_result>>

waitVars == <<wkind, wpc, now, wfile, file_size, polls, woutcome, last_poll, stable_seen,
              ever_existed, ever_content>>

engineVars == <<rkind, rpc, rleft, loop_owner, in_engine, invocations>>

lifeVars == <<lpc, attempt, ij, classes, contexts, disposals, shutdowns>>

cleanVars == <<kpc, kpath, ksection, kcontent, kevent>>

storeVars == <<hpc, request, upload_idx, results, db, session, disk, upload_tasks, answer,
               found, faults>>

sweepVars == <<sweep_pc, sweep_due, sweep_clock, sweep_target, sweep_log>>

nonStreamVars == <<batchVars, zipVars, waitVars, engineVars, lifeVars, cleanVars, storeVars, sweepVars>>
nonBatchVars == <<streamVars, zipVars, waitVars, engineVars, lifeVars, cleanVars, storeVars, sweepVars>>
nonLifeVars == <<streamVars, batchVars, zipVars, waitVars, engineVars, cleanVars, storeVars,
                  sweepVars>>
nonCleanVars == <<streamVars, batchVars, zipVars, waitVars, engineVars, lifeVars, storeVars,
                   sweepVars>>
nonStoreVars == <<streamVars, batchVars, zipVars, waitVars, engineVars, lifeVars, cleanVars,
                   sweepVars>>
nonSweepVars == <<streamVars, batchVars, zipVars, waitVars, engineVars, lifeVars, cleanVars,
                   storeVars>>

vars == <<streamVars, batchVars, zipVars, waitVars, engineVars, lifeVars, cleanVars, storeVars, sweepVars>>

\* What a resumption of the generator can give its consumer.
None == [kind |-> "none"]
Yielded(ev) == [kind |-> "event", ev |-> ev]
Stopped == [kind |-> "stop"]
Raised == [kind |-> "raise"]

StreamInit ==
  /\ spc = "start"
  /\ improve_prompt \in BOOLEAN
  /\ chunks = <<>>
  /\ prompt = ""
  /\ sent = <<>>
  /\ connected = TRUE
  /\ observed = FALSE
  /\ pending = None
  /\ gpc = "created"
  /\ current_section = "description"
  /\ section_content = <<>>
  /\ deltas = <<>>
  /\ events = <<>>
  /\ upstream = "ok"

\* ---------------------------------------------- generate_macro_from_prompt
\* macro_stream resumes the generator and the generator runs to its next yield.
Resumable == spc = "generating" /\ pending = None

Yield(ev) ==
  /\ events' = Append(events, ev)
  /\ pending' = Yielded(ev)

\* Lines 77-93: the stream is opened and the initial section_change is yielded.
GenOpen ==
  /\ Resumable /\ gpc = "created"
  /\ current_section' = "description"
  /\ section_content' = <<>>
  /\ Yield(SectionChange("description", <<>>))
  /\ gpc' = "streaming"
  /\ UNCHANGED <<msVars, deltas, upstream>>
  /\ UNCHANGED nonStreamVars

\* Lines 80-86, 128-130: opening the stream raises.
GenOpenRaises ==
  /\ Resumable /\ gpc = "created"
  /\ Yield(ErrorEvent("upstream failure"))
  /\ gpc' = "errored"
  /\ upstream' = "open"
  /\ UNCHANGED <<msVars, current_section, section_content, deltas>>
  /\ UNCHANGED nonStreamVars

\* Faulty variant of GenDelta: the message event carries the accumulated content
\* instead of the delta.
GenDelta_MessageCarriesAccumulated ==
  /\ Resumable /\ gpc = "streaming"
  /\ Len(deltas) < MaxDeltas
  /\ \E content_chunk \in DeltaChoices :
       LET acc == section_content \o content_chunk
       IN /\ deltas' = Append(deltas, content_chunk)
          /\ IF handle_section_transition(content_chunk, current_section)
             THEN /\ Yield(process_section_change(current_section, acc)[1])
                  /\ current_section' = get_next_section(current_section)
                  /\ section_content' = <<>>
             ELSE /\ Yield(Message(acc, current_section))
                  /\ section_content' = acc
                  /\ UNCHANGED current_section
  /\ UNCHANGED <<msVars, gpc, upstream>>
  /\ UNCHANGED nonStreamVars

\* Faulty variant of GenDelta: the accumulated content is not reset at a transition.
GenDelta_NoReset ==
  /\ Resumable /\ gpc = "streaming"
  /\ Len(deltas) < MaxDeltas
  /\ \E content_chunk \in DeltaChoices :
       LET acc == section_content \o content_chunk
       IN /\ deltas' = Append(deltas, content_chunk)
          /\ section_content' = acc
          /\ IF handle_section_transition(content_chunk, current_section)
             THEN /\ Yield(process_section_change(current_section, acc)[1])
                  /\ current_section' = get_next_section(current_section)
             ELSE /\ Yield(Message(content_chunk, current_section))
                  /\ UNCHANGED current_section
  /\ UNCHANGED <<msVars, gpc, upstream>>
  /\ UNCHANGED nonStreamVars

\* Lines 95-112: one ContentBlockDeltaEvent.
GenDelta ==
  /\ Resumable /\ gpc = "streaming"
  /\ Len(deltas) < MaxDeltas
  /\ \E content_chunk \in DeltaChoices :
       LET acc == section_content \o content_chunk
       IN /\ deltas' = Append(deltas, content_chunk)
          /\ IF handle_section_transition(content_chunk, current_section)
             THEN /\ Yield(process_section_change(current_section, acc)[1])
                  /\ current_section' = get_next_section(current_section)
                  /\ section_content' = <<>>
             ELSE /\ Yield(Message(content_chunk, current_section))
                  /\ section_content' = acc
                  /\ UNCHANGED current_section
  /\ UNCHANGED <<msVars, gpc, upstream>>
  /\ UNCHANGED nonStreamVars

\* Faulty variant of GenEnd: the final section_change is yielded also for empty
\* content.
GenEnd_AlwaysFlush ==
  /\ Resumable /\ gpc = "streaming"
  /\ Yield(SectionChange(current_section,
             clean_section_content(current_section, Strip(section_content))))
  /\ gpc' = "flushed"
  /\ UNCHANGED <<msVars, current_section, section_content, deltas, upstream>>
  /\ UNCHANGED nonStreamVars

\* Lines 114-126: the delta sequence ends.
GenEnd ==
  /\ Resumable /\ gpc = "streaming"
  /\ IF section_content # <<>>
     THEN /\ Yield(SectionChange(current_section,
                     clean_section_content(current_section, Strip(section_content))))
          /\ gpc' = "flushed"
     ELSE /\ Yield(Complete)
          /\ gpc' = "completed"
  /\ UNCHANGED <<msVars, current_section, section_content, deltas, upstream>>
  /\ UNCHANGED nonStreamVars

\* Lines 123-126: complete, after the final section_change.
GenComplete ==
  /\ Resumable /\ gpc = "flushed"
  /\ Yield(Complete)
  /\ gpc' = "completed"
  /\ UNCHANGED <<msVars, current_section, section_content, deltas, upstream>>
  /\ UNCHANGED nonStreamVars

\* Lines 95, 128-130: the backend raises in mid-stream; the error event is yielded.
GenRaises ==
  /\ Resumable /\ gpc = "streaming"
  /\ Yield(ErrorEvent("upstream failure"))
  /\ gpc' = "errored"
  /\ upstream' = "stream"
  /\ UNCHANGED <<msVars, current_section, section_content, deltas>>
  /\ UNCHANGED nonStreamVars

\* Faulty variant of GenReraise: after the error event the generator goes on to
\* its complete event instead of raising.
GenReraise_Completes ==
  /\ Resumable /\ gpc = "errored"
  /\ Yield(Complete)
  /\ gpc' = "completed"
  /\ UNCHANGED <<msVars, current_section, section_content, deltas, upstream>>
  /\ UNCHANGED nonStreamVars

\* Line 131: resumed after the error event, the generator raises HTTPException.
GenReraise ==
  /\ Resumable /\ gpc = "errored"
  /\ pending' = Raised
  /\ gpc' = "raised"
  /\ UNCHANGED <<msVars, current_section, section_content, deltas, events, upstream>>
  /\ UNCHANGED nonStreamVars

\* Resumed after complete, the generator is exhausted.
GenStop ==
  /\ Resumable /\ gpc = "completed"
  /\ pending' = Stopped
  /\ gpc' = "ended"
  /\ UNCHANGED <<msVars, current_section, section_content, deltas, events, upstream>>
  /\ UNCHANGED nonStreamVars

\* ------------------------------------------------------------ macro_stream
Send(ev) == sent' = Append(sent, ev)

\* Lines 42-45.
StreamStart ==
  /\ spc = "start"
  /\ prompt' = UserInput
  /\ spc' = IF improve_prompt THEN "improving" ELSE "generating"
  /\ UNCHANGED <<improve_prompt, chunks, sent, connected, observed, pending, genVars>>
  /\ UNCHANGED nonStreamVars

\* Lines 46-47: one chunk of the improved prompt.
ImproveChunk ==
  /\ spc = "improving"
  /\ Len(chunks) < MaxChunks
  /\ \E improved_chunk \in ChunkChoices :
       /\ chunks' = Append(chunks, improved_chunk)
       /\ Send(format_event("improved_prompt_chunk", [chunk |-> improved_chunk]))
  /\ UNCHANGED <<spc, improve_prompt, prompt, connected, observed, pending, genVars>>
  /\ UNCHANGED nonStreamVars

\* Lines 48-49: the chunks end; with no chunk at all improved_chunk is unbound and
\* line 49 raises, which line 57 catches.
ImproveEnd ==
  /\ spc = "improving"
  /\ LET done == format_event("improved_prompt_complete",
                              [message |-> "Prompt improvement complete"])
     IN IF chunks # <<>>
        THEN /\ Send(done)
             /\ prompt' = chunks[Len(chunks)]
             /\ spc' = "generating"
        ELSE /\ sent' = sent \o <<done, format_event("error", [error |-> "unbound"])>>
             /\ spc' = "done"
             /\ UNCHANGED prompt
  /\ UNCHANGED <<improve_prompt, chunks, connected, observed, pending, genVars>>
  /\ UNCHANGED nonStreamVars

\* Lines 46, 57-59: generate_improved_prompt raises HTTPException.
ImproveRaises ==
  /\ spc = "improving"
  /\ Send(format_event("error", [error |-> "Failed to generate improved prompt"]))
  /\ spc' = "done"
  /\ UNCHANGED <<improve_prompt, chunks, prompt, connected, observed, pending, genVars>>
  /\ UNCHANGED nonStreamVars

\* Faulty variant of Forward: a disconnected client is noticed and the event is
\* sent all the same.
Forward_NoBreak ==
  /\ spc = "generating" /\ pending.kind = "event"
  /\ pending' = None
  /\ observed' = (observed \/ ~connected)
  /\ Send(format_event(pending.ev.event, pending.ev.data))
  /\ UNCHANGED <<spc, improve_prompt, chunks, prompt, connected, genVars>>
  /\ UNCHANGED nonStreamVars

\* Lines 51-55: an event arrived; the connection is checked, then the event is sent.
Forward ==
  /\ spc = "generating" /\ pending.kind = "event"
  /\ pending' = None
  /\ IF connected
     THEN /\ Send(format_event(pending.ev.event, pending.ev.data))
          /\ UNCHANGED <<spc, observed>>
     ELSE /\ observed' = TRUE
          /\ spc' = "done"
          /\ UNCHANGED sent
  /\ UNCHANGED <<improve_prompt, chunks, prompt, connected, genVars>>
  /\ UNCHANGED nonStreamVars

\* Line 51: the generator is exhausted.
StreamEnd ==
  /\ spc = "generating" /\ pending = Stopped
  /\ pending' = None
  /\ spc' = "done"
  /\ UNCHANGED <<improve_prompt, chunks, prompt, sent, connected, observed, genVars>>
  /\ UNCHANGED nonStreamVars

\* Lines 57-59: the generator raised.
StreamExcept ==
  /\ spc = "generating" /\ pending = Raised
  /\ pending' = None
  /\ Send(format_event("error", [error |-> "Failed to generate macro script"]))
  /\ spc' = "done"
  /\ UNCHANGED <<improve_prompt, chunks, prompt, connected, observed, genVars>>
  /\ UNCHANGED nonStreamVars

\* The client goes away (request.is_disconnected() becomes true).
ClientDisconnect ==
  /\ spc # "done" /\ connected
  /\ connected' = FALSE
  /\ UNCHANGED <<spc, improve_prompt, chunks, prompt, sent, observed, pending, genVars>>
  /\ UNCHANGED nonStreamVars

StreamStep ==
  \/ StreamStart \/ ImproveChunk \/ ImproveEnd \/ ImproveRaises
  \/ GenOpen \/ GenOpenRaises \/ GenDelta \/ GenEnd
  \/ GenComplete \/ GenRaises \/ GenReraise \/ GenStop
  \/ Forward \/ StreamEnd \/ StreamExcept \/ ClientDisconnect

\* ------------------------------------------------------------ MacroOrchestrator
NoResult == [kind |-> "none"]
Returned(zip_path, logs) == [kind |-> "returned", zip_path |-> zip_path, error_logs |-> logs]
RaisedHTTP(status, detail) == [kind |-> "raised", status |-> status, detail |-> detail]
RaisedOther(what) == [kind |-> "raised", status |-> 0, detail |-> what]

NoOutputFiles == "No output files were generated."
ZipFailure == "Failed to create zip file."

FileEntry(name) == [text |-> "Error processing", filename |-> name]
BatchEntry(text) == [text |-> text, filename |-> <<>>]

CleanupTask(path) == [task |-> "cleanup_temp_files", path |-> path]

NoFilesUploaded == "No files uploaded"

\* A request arrives at upload_image: its files, none possibly, and its script,
\* possibly empty (image_routes.py lines 26-33).
BatchInit ==
  /\ bpc = "received"
  /\ files \in Batches \cup {<<>>}
  /\ macro_script \in {"m", ""}
  /\ execute_macro \in BOOLEAN
  /\ temp_dir = "none"
  /\ dir_exists = FALSE
  /\ idx = 0
  /\ fs = EmptyFs
  /\ logfile = NoFile
  /\ output = <<>>
  /\ output_files = <<>>
  /\ error_logs = <<>>
  /\ archive = NoFile
  /\ result = NoResult
  /\ response = [kind |-> "none"]
  /\ background_tasks = <<>>
  /\ cpc = "none"
  /\ invoked = <<>>
  /\ raised_at = [k \in DOMAIN files |-> "none"]
  /\ collected = [k \in DOMAIN files |-> NoFile]

\* Lines 163-165, for the file the loop is at.
image_filename == secure_filename(files[idx].filename)
original_filename == splitext_root(image_filename)
image_path == TopLevel(image_filename)

\* Lines 210-212: the finally clause.
Finally ==
  background_tasks' = Append(background_tasks, CleanupTask(temp_dir))

\* Faulty variant of Exit: cleanup is scheduled on the success path only.
Exit_CleanupOnReturnOnly(outcome) ==
  /\ result' = outcome
  /\ bpc' = "exited"
  /\ IF outcome.kind = "returned" THEN Finally ELSE UNCHANGED background_tasks

\* execute_image_macro ends, by return or by raise, through its finally clause.
Exit(outcome) ==
  /\ result' = outcome
  /\ bpc' = "exited"
  /\ Finally

\* Faulty variant of NextFile: the loop steps over a file.
NextFile_SkipsOne ==
  IF idx < Len(files)
  THEN idx' = (IF idx + 2 <= Len(files) THEN idx + 2 ELSE idx + 1) /\ bpc' = "save"
  ELSE bpc' = "aggregate" /\ UNCHANGED idx

\* Line 162: the loop goes to the next file, or ends.
NextFile ==
  IF idx < Len(files)
  THEN idx' = idx + 1 /\ bpc' = "save"
  ELSE bpc' = "aggregate" /\ UNCHANGED idx

\* Faulty variant of FileErrorHandler: the exception is swallowed without an entry.
FileErrorHandler_NoEntry(step) ==
  /\ UNCHANGED error_logs
  /\ raised_at' = [raised_at EXCEPT ![idx] = step]
  /\ NextFile

\* Lines 187-190: the except clause of the per-file try.
FileErrorHandler(step) ==
  /\ error_logs' = Append(error_logs, FileEntry(image_filename))
  /\ raised_at' = [raised_at EXCEPT ![idx] = step]
  /\ NextFile

\* Faulty variant of NoFiles: the empty list is not recognised.
NoFiles_Never == FALSE

\* image_routes.py line 39.
NoFiles == files = <<>>

\* image_routes.py lines 39-40: the request without files is refused.
UploadRejected ==
  /\ bpc = "received" /\ NoFiles
  /\ result' = RaisedHTTP(400, NoFilesUploaded)
  /\ response' = [kind |-> "error", status |-> 400, detail |-> NoFilesUploaded]
  /\ bpc' = "responded"
  /\ UNCHANGED <<files, macro_script, execute_macro, temp_dir, dir_exists, idx, fs, logfile, output,
                 output_files, error_logs, archive, background_tasks, cpc, invoked,
                 raised_at, collected>>
  /\ UNCHANGED nonBatchVars

\* image_routes.py lines 43-44: macro execution was asked for, with a script.
UploadExecutes ==
  /\ bpc = "received" /\ ~NoFiles
  /\ execute_macro /\ macro_script # ""
  /\ bpc' = "request"
  /\ UNCHANGED <<files, macro_script, execute_macro, temp_dir, dir_exists, idx, fs, logfile, output,
                 output_files, error_logs, archive, result, response, background_tasks,
                 cpc, invoked, raised_at, collected>>
  /\ UNCHANGED nonBatchVars

\* image_routes.py lines 45-46: without the flag or without a script the files
\* go to handle_initial_upload, which is not a batch run.
UploadPreviews ==
  /\ bpc = "received" /\ ~NoFiles
  /\ ~(execute_macro /\ macro_script # "")
  /\ bpc' = "initial_upload"
  /\ UNCHANGED <<files, macro_script, execute_macro, temp_dir, dir_exists, idx, fs, logfile, output,
                 output_files, error_logs, archive, result, response, background_tasks,
                 cpc, invoked, raised_at, collected>>
  /\ UNCHANGED nonBatchVars

\* Lines 148-154: the working directory is created.
Begin ==
  /\ bpc = "request"
  /\ \E root \in Roots : temp_dir' = root
  /\ dir_exists' = TRUE
  /\ bpc' = "subdirs"
  /\ UNCHANGED <<files, macro_script, execute_macro, idx, fs, logfile, output, output_files, error_logs,
                 archive, result, response, background_tasks, cpc, invoked, raised_at,
                 collected>>
  /\ UNCHANGED nonBatchVars

\* Line 154: mkdtemp raises; no directory exists and the try was not entered.
BeginRaises ==
  /\ bpc = "request"
  /\ result' = RaisedOther("mkdtemp")
  /\ bpc' = "exited"
  /\ UNCHANGED <<files, macro_script, execute_macro, temp_dir, dir_exists, idx, fs, logfile, output,
                 output_files, error_logs, archive, response, background_tasks, cpc,
                 invoked, raised_at, collected>>
  /\ UNCHANGED nonBatchVars

\* Lines 158-162: the subdirectories are created and the loop starts.
MakeSubdirs ==
  /\ bpc = "subdirs"
  /\ NextFile
  /\ UNCHANGED <<files, macro_script, execute_macro, temp_dir, dir_exists, fs, logfile, output,
                 output_files, error_logs, archive, result, response, background_tasks,
                 cpc, invoked, raised_at, collected>>
  /\ UNCHANGED nonBatchVars

\* Lines 158-160: makedirs raises inside the try.
MakeSubdirsRaises ==
  /\ bpc = "subdirs"
  /\ Exit(RaisedOther("makedirs"))
  /\ UNCHANGED <<files, macro_script, execute_macro, temp_dir, dir_exists, idx, fs, logfile, output,
                 output_files, error_logs, archive, response, cpc, invoked, raised_at,
                 collected>>
  /\ UNCHANGED nonBatchVars

\* Lines 163-166: the upload is written to temp_dir/image_filename.  An empty
\* sanitized name makes the destination the directory itself, and open raises.
SaveUpload ==
  /\ bpc = "save"
  /\ image_filename # <<>>
  /\ fs' = WriteFile(fs, image_path, files[idx].size)
  /\ bpc' = "render"
  /\ UNCHANGED <<files, macro_script, execute_macro, temp_dir, dir_exists, idx, logfile, output,
                 output_files, error_logs, archive, result, response, background_tasks,
                 cpc, invoked, raised_at, collected>>
  /\ UNCHANGED nonBatchVars

\* Lines 166, 266-268: _save_upload_file raises, outside the per-file try.
SaveRaises ==
  /\ bpc = "save"
  /\ raised_at' = [raised_at EXCEPT ![idx] = "save"]
  /\ Exit(RaisedOther("save"))
  /\ UNCHANGED <<files, macro_script, execute_macro, temp_dir, dir_exists, idx, fs, logfile, output,
                 output_files, error_logs, archive, response, cpc, invoked, collected>>
  /\ UNCHANGED nonBatchVars

\* Lines 170-176, 235-252: the script is rendered.
Render ==
  /\ bpc = "render"
  /\ bpc' = "invoke"
  /\ UNCHANGED <<files, macro_script, execute_macro, temp_dir, dir_exists, idx, fs, logfile, output,
                 output_files, error_logs, archive, result, response, background_tasks,
                 cpc, invoked, raised_at, collected>>
  /\ UNCHANGED nonBatchVars

\* Lines 246-248: the template cannot be read.
RenderRaises ==
  /\ bpc = "render"
  /\ FileErrorHandler("render")
  /\ UNCHANGED <<files, macro_script, execute_macro, temp_dir, dir_exists, fs, logfile, output,
                 output_files, archive, result, response, background_tasks, cpc,
                 invoked, collected>>
  /\ UNCHANGED nonBatchVars

full_macro ==
  [inputPath |-> image_path, outputDir |-> temp_dir,
   originalFileName |-> original_filename, user_macro |-> macro_script]

EngineEffects(b) ==
  /\ fs' = WriteAll(fs, b.writes)
  /\ logfile' = IF b.logged = <<>> THEN logfile
                ELSE FileOf(logfile.content \o b.logged)
  /\ invoked' = Append(invoked, [file |-> idx, script |-> full_macro])

\* Line 179: the engine runs the script and returns its text.
InvokeReturns ==
  /\ bpc = "invoke"
  /\ \E b \in EngineBehaviours(temp_dir, original_filename) :
       /\ ~b.raises
       /\ EngineEffects(b)
       /\ output' = b.output
  /\ bpc' = "collect"
  /\ UNCHANGED <<files, macro_script, execute_macro, temp_dir, dir_exists, idx, output_files, error_logs,
                 archive, result, response, background_tasks, cpc, raised_at, collected>>
  /\ UNCHANGED nonBatchVars

\* Lines 179, 187-190: the engine raises.
InvokeRaises ==
  /\ bpc = "invoke"
  /\ \E b \in EngineBehaviours(temp_dir, original_filename) :
       /\ b.raises
       /\ EngineEffects(b)
  /\ FileErrorHandler("invoke")
  /\ UNCHANGED <<files, macro_script, execute_macro, temp_dir, dir_exists, output, output_files, archive,
                 result, response, background_tasks, cpc, collected>>
  /\ UNCHANGED nonBatchVars

\* Lines 183-185: the outputs of the job are collected.
Collect ==
  /\ bpc = "collect"
  /\ \E saved_files \in
        Listings(parse_saved_files(output, fs, logfile, temp_dir, original_filename)) :
       /\ output_files' = output_files \o saved_files
       /\ collected' = [collected EXCEPT ![idx] = FileOf(saved_files)]
  /\ NextFile
  /\ UNCHANGED <<files, macro_script, execute_macro, temp_dir, dir_exists, fs, logfile, output,
                 error_logs, archive, result, response, background_tasks, cpc, invoked,
                 raised_at>>
  /\ UNCHANGED nonBatchVars

\* Lines 183, 187-190: parse_saved_files raises (a file vanishes between the
\* scan and stat, the log is unreadable).
CollectRaises ==
  /\ bpc = "collect"
  /\ FileErrorHandler("collect")
  /\ UNCHANGED <<files, macro_script, execute_macro, temp_dir, dir_exists, fs, logfile, output,
                 output_files, archive, result, response, background_tasks, cpc,
                 invoked, collected>>
  /\ UNCHANGED nonBatchVars

\* Faulty variant of HasOutputs: a batch with per-file errors goes to the archive builder.
HasOutputs_OrErrors == output_files # <<>> \/ error_logs # <<>>

\* Line 192.
HasOutputs == output_files # <<>>

\* Faulty variant of ArchiveBuilt: the path is returned without the test that
\* the archive exists.
ArchiveBuilt_Unchecked ==
  /\ bpc = "aggregate" /\ HasOutputs
  /\ Exit(Returned("results.zip", error_logs))
  /\ UNCHANGED <<files, macro_script, execute_macro, temp_dir, dir_exists, idx, fs, logfile, output,
                 output_files, error_logs, archive, response, cpc, invoked, raised_at,
                 collected>>
  /\ UNCHANGED nonBatchVars

\* Lines 192-198: the archive is built and its path returned.
ArchiveBuilt ==
  /\ bpc = "aggregate" /\ HasOutputs
  /\ LET zip == create_zip_file(output_files, fs, temp_dir)
     IN /\ zip.ok
        /\ archive' = FileOf(zip.members)
        /\ Exit(Returned("results.zip", error_logs))
  /\ UNCHANGED <<files, macro_script, execute_macro, temp_dir, dir_exists, idx, fs, logfile, output,
                 output_files, error_logs, response, cpc, invoked, raised_at, collected>>
  /\ UNCHANGED nonBatchVars

\* Faulty variant of ArchiveFails: the failure is logged and the path of the
\* unfinished archive is returned all the same.
ArchiveFails_ReturnsPath ==
  /\ bpc = "aggregate" /\ HasOutputs
  /\ error_logs' = Append(error_logs, BatchEntry(ZipFailure))
  /\ archive' = FileOf(<<>>)
  /\ Exit(Returned("results.zip", error_logs'))
  /\ UNCHANGED <<files, macro_script, execute_macro, temp_dir, dir_exists, idx, fs, logfile, output,
                 output_files, response, cpc, invoked, raised_at, collected>>
  /\ UNCHANGED nonBatchVars

\* Lines 195-203, file_service lines 111-113: create_zip_file returns None, for a
\* path it cannot make relative or for an error while writing.
ArchiveFails ==
  /\ bpc = "aggregate" /\ HasOutputs
  /\ error_logs' = Append(error_logs, BatchEntry(ZipFailure))
  /\ Exit(RaisedHTTP(500, ZipFailure))
  /\ UNCHANGED <<files, macro_script, execute_macro, temp_dir, dir_exists, idx, fs, logfile, output,
                 output_files, archive, response, cpc, invoked, raised_at, collected>>
  /\ UNCHANGED nonBatchVars

\* Lines 204-208: no output at all.
NoOutputs ==
  /\ bpc = "aggregate" /\ ~HasOutputs
  /\ error_logs' = Append(error_logs, BatchEntry(NoOutputFiles))
  /\ Exit(RaisedHTTP(500, NoOutputFiles))
  /\ UNCHANGED <<files, macro_script, execute_macro, temp_dir, dir_exists, idx, fs, logfile, output,
                 output_files, archive, response, cpc, invoked, raised_at, collected>>
  /\ UNCHANGED nonBatchVars

\* ------------------------------------------------------ handle_execute_macro
\* image_routes.py lines 148-169: the archive is answered as a stream, or the
\* request fails; an exception of execute_image_macro passes through.
HandleResult ==
  /\ bpc = "exited"
  /\ response' =
       IF result.kind = "returned"
       THEN IF archive.exists /\ dir_exists
            THEN [kind |-> "streaming", status |-> 200, detail |-> ""]
            ELSE [kind |-> "error", status |-> 500, detail |-> "Failed to execute macro."]
       ELSE [kind |-> "error", status |-> 500,
             detail |-> IF result.status = 500 THEN result.detail
                        ELSE "Error processing files."]
  /\ bpc' = "responded"
  /\ cpc' = IF background_tasks # <<>> THEN "queued" ELSE "none"
  /\ UNCHANGED <<files, macro_script, execute_macro, temp_dir, dir_exists, idx, fs, logfile, output,
                 output_files, error_logs, archive, result, background_tasks, invoked,
                 raised_at, collected>>
  /\ UNCHANGED nonBatchVars

\* image_routes.py lines 155-160: iterfile streams the archive to the end.
SendArchive ==
  /\ bpc = "responded" /\ response.kind = "streaming"
  /\ response' = [response EXCEPT !.kind = IF archive.exists /\ dir_exists
                                            THEN "sent" ELSE "broken"]
  /\ UNCHANGED <<bpc, files, macro_script, execute_macro, temp_dir, dir_exists, idx, fs, logfile, output,
                 output_files, error_logs, archive, result, background_tasks, cpc,
                 invoked, raised_at, collected>>
  /\ UNCHANGED nonBatchVars

\* ------------------------------------------------------ cleanup_temp_files
\* Faulty variant of ResponseOver: the task is started as soon as the handler
\* has returned its response object, before the body is streamed.
ResponseOver_AtOnce == bpc = "responded"

ResponseOver == bpc = "responded" /\ response.kind \in {"sent", "broken", "error"}

\* The scheduler starts the task once the response is over; file_service
\* line 170: the task sleeps.
CleanupStart ==
  /\ cpc = "queued" /\ ResponseOver
  /\ cpc' = "sleeping"
  /\ UNCHANGED <<bpc, files, macro_script, execute_macro, temp_dir, dir_exists, idx, fs, logfile, output,
                 output_files, error_logs, archive, result, response, background_tasks,
                 invoked, raised_at, collected>>
  /\ UNCHANGED nonBatchVars

\* Lines 171-175: the delay is over and rmtree removes the directory.
CleanupRemoves ==
  /\ cpc = "sleeping"
  /\ dir_exists' = FALSE
  /\ fs' = EmptyFs
  /\ logfile' = NoFile
  /\ archive' = NoFile
  /\ cpc' = "done"
  /\ UNCHANGED <<bpc, files, macro_script, execute_macro, temp_dir, idx, output, output_files,
                 error_logs, result, response, background_tasks, invoked, raised_at,
                 collected>>
  /\ UNCHANGED nonBatchVars

\* Lines 174, 181-182: rmtree raises; the exception is logged and the task ends.
CleanupRaises ==
  /\ cpc = "sleeping"
  /\ cpc' = "done"
  /\ UNCHANGED <<bpc, files, macro_script, execute_macro, temp_dir, dir_exists, idx, fs, logfile, output,
                 output_files, error_logs, archive, result, response, background_tasks,
                 invoked, raised_at, collected>>
  /\ UNCHANGED nonBatchVars

BatchStep ==
  \/ UploadRejected \/ UploadExecutes \/ UploadPreviews
  \/ Begin \/ BeginRaises \/ MakeSubdirs \/ MakeSubdirsRaises
  \/ SaveUpload \/ SaveRaises \/ Render \/ RenderRaises
  \/ InvokeReturns \/ InvokeRaises \/ Collect \/ CollectRaises
  \/ ArchiveBuilt \/ ArchiveFails \/ NoOutputs
  \/ HandleResult \/ SendArchive
  \/ CleanupStart \/ CleanupRemoves \/ CleanupRaises

\* ------------------------------------------------------ create_zip_file alone
\* A file of another directory, as a line of the log may declare it.
Elsewhere == PathStr("elsewhere", FALSE, [dir |-> "elsewhere", name |-> <<"o">>])

\* The paths a list may hold: two files of the working directory under each
\* spelling of the directory, with and without a doubled separator, and the
\* file of another directory.
ZipPathChoices ==
  {PathStr(root, dbl, InStatistics(name)) :
     root \in Roots, dbl \in BOOLEAN, name \in {<<"r">>, <<"g">>}}
  \cup {Elsewhere}

ZipLists == UNION {[1..n -> ZipPathChoices] : n \in 0..MaxPaths}

ZipFileSystems ==
  {[r \in rels |-> 1] :
     rels \in SUBSET {InStatistics(<<"r">>), InStatistics(<<"g">>), Elsewhere.rel}}

ZipInit ==
  /\ zpc = "called"
  /\ zip_paths \in ZipLists
  /\ zip_root \in Roots
  /\ zip_fs \in ZipFileSystems
  /\ zip_result = ZipFailed

\* file_service.py lines 72-113: the call runs to its return.
ZipCall ==
  /\ zpc = "called"
  /\ zip_result' = create_zip_file(zip_paths, zip_fs, zip_root)
  /\ zpc' = "done"
  /\ UNCHANGED <<zip_paths, zip_root, zip_fs>>
  /\ UNCHANGED <<streamVars, batchVars, waitVars, engineVars, lifeVars, cleanVars, storeVars, sweepVars>>

ZipStep == ZipCall

\* ------------------------------------------------------------ polling waits
Absent == -1

WaitKinds == {"_wait_for_file", "_wait_for_file_content", "wait_for_file"}

FileStates == {Absent} \cup (0..MaxSize)

WaitInit ==
  /\ wkind \in WaitKinds
  /\ wpc = IF wkind = "_wait_for_file" THEN "exists" ELSE "poll"
  /\ now = 0
  /\ wfile \in FileStates
  /\ file_size = 0
  /\ polls = 0
  /\ woutcome = "none"
  /\ last_poll = Absent
  /\ stable_seen = FALSE
  /\ ever_existed = (wfile # Absent)
  /\ ever_content = (wfile > 0)

\* Faulty variant of Expired: the deadline is never seen to pass.
Expired_Never == FALSE

\* image_service.py lines 103 and 123: the deadline has passed
Expired == now > WaitTimeout

\* the clock is followed a little beyond every deadline and no further
MaxClock == WaitTimeout + 2

\* asyncio.sleep(check_interval)
Sleep == now < MaxClock /\ now' = now + 1

WaitEnds(outcome) ==
  /\ wpc' = "done"
  /\ woutcome' = outcome

\* The external process creates, grows, truncates or removes the file.
FileChanges ==
  /\ wpc # "done"
  /\ \E f \in FileStates \ {wfile} :
       /\ wfile' = f
       /\ ever_existed' = (ever_existed \/ f # Absent)
       /\ ever_content' = (ever_content \/ f > 0)
  /\ UNCHANGED <<wkind, wpc, now, file_size, polls, woutcome, last_poll, stable_seen>>
  /\ UNCHANGED <<streamVars, batchVars, zipVars, engineVars, lifeVars, cleanVars, storeVars, sweepVars>>

\* _wait_for_file lines 102-105: the file does not exist yet.
WfSleep ==
  /\ wkind = "_wait_for_file" /\ wpc = "exists"
  /\ wfile = Absent /\ ~Expired
  /\ Sleep
  /\ UNCHANGED <<wkind, wpc, wfile, file_size, polls, woutcome, last_poll, stable_seen,
                 ever_existed, ever_content>>
  /\ UNCHANGED <<streamVars, batchVars, zipVars, engineVars, lifeVars, cleanVars, storeVars, sweepVars>>

\* Lines 103-104: TimeoutError.
WfTimeout ==
  /\ wkind = "_wait_for_file" /\ wpc = "exists"
  /\ wfile = Absent /\ Expired
  /\ WaitEnds("timeout")
  /\ UNCHANGED <<wkind, now, wfile, file_size, polls, last_poll, stable_seen,
                 ever_existed, ever_content>>
  /\ UNCHANGED <<streamVars, batchVars, zipVars, engineVars, lifeVars, cleanVars, storeVars, sweepVars>>

\* Lines 102, 108: the file exists, the stability window begins.
WfAppeared ==
  /\ wkind = "_wait_for_file" /\ wpc = "exists"
  /\ wfile # Absent
  /\ wpc' = "window"
  /\ file_size' = 0
  /\ UNCHANGED <<wkind, now, wfile, polls, woutcome, last_poll, stable_seen,
                 ever_existed, ever_content>>
  /\ UNCHANGED <<streamVars, batchVars, zipVars, engineVars, lifeVars, cleanVars, storeVars, sweepVars>>

\* Lines 109-114: one poll of the window; getsize raises for a removed file.
WfPoll ==
  /\ wkind = "_wait_for_file" /\ wpc = "window"
  /\ polls < StabilityPolls
  /\ polls' = polls + 1
  /\ last_poll' = wfile
  /\ stable_seen' = (stable_seen \/ (wfile > 0 /\ wfile = last_poll))
  /\ IF wfile = Absent
     THEN WaitEnds("error") /\ UNCHANGED file_size
     ELSE IF wfile > 0 /\ wfile = file_size
     THEN WaitEnds("success") /\ UNCHANGED file_size
     ELSE file_size' = wfile /\ UNCHANGED <<wpc, woutcome>>
  /\ UNCHANGED <<wkind, now, wfile, ever_existed, ever_content>>
  /\ UNCHANGED <<streamVars, batchVars, zipVars, engineVars, lifeVars, cleanVars, storeVars, sweepVars>>

\* Lines 116-117: the window is over; ValueError for an empty file, else the
\* function returns.
WfWindowOver ==
  /\ wkind = "_wait_for_file" /\ wpc = "window"
  /\ polls = StabilityPolls
  /\ WaitEnds(IF file_size = 0 THEN "empty" ELSE "success")
  /\ UNCHANGED <<wkind, now, wfile, file_size, polls, last_poll, stable_seen,
                 ever_existed, ever_content>>
  /\ UNCHANGED <<streamVars, batchVars, zipVars, engineVars, lifeVars, cleanVars, storeVars, sweepVars>>

\* _wait_for_file_content lines 122-132: one turn of the loop.
WcPoll ==
  /\ wkind = "_wait_for_file_content" /\ wpc = "poll"
  /\ IF Expired THEN WaitEnds("timeout") /\ UNCHANGED now
     ELSE IF wfile > 0 THEN WaitEnds("success") /\ UNCHANGED now
     ELSE Sleep /\ UNCHANGED <<wpc, woutcome>>
  /\ UNCHANGED <<wkind, wfile, file_size, polls, last_poll, stable_seen,
                 ever_existed, ever_content>>
  /\ UNCHANGED <<streamVars, batchVars, zipVars, engineVars, lifeVars, cleanVars, storeVars, sweepVars>>

\* wait_for_file (file_service.py lines 49-55): one turn of the loop.
FwPoll ==
  /\ wkind = "wait_for_file" /\ wpc = "poll"
  /\ IF ~(now < WaitTimeout) THEN WaitEnds("timeout") /\ UNCHANGED now
     ELSE IF wfile > 0 THEN WaitEnds("success") /\ UNCHANGED now
     ELSE Sleep /\ UNCHANGED <<wpc, woutcome>>
  /\ UNCHANGED <<wkind, wfile, file_size, polls, last_poll, stable_seen,
                 ever_existed, ever_content>>
  /\ UNCHANGED <<streamVars, batchVars, zipVars, engineVars, lifeVars, cleanVars, storeVars, sweepVars>>

\* the steps of the waiting coroutine, which the event loop keeps scheduling
WaitProgress ==
  WfSleep \/ WfTimeout \/ WfAppeared \/ WfPoll \/ WfWindowOver \/ WcPoll \/ FwPoll

WaitStep ==
  \/ FileChanges
  \/ WfSleep \/ WfTimeout \/ WfAppeared \/ WfPoll \/ WfWindowOver
  \/ WcPoll \/ FwPoll

\* ------------------------------------------------- requests on the event loop
\* The handlers are coroutines of one event loop: between two awaits a
\* coroutine runs alone, and at an await any other coroutine may run.
Requests == 1..MaxRequests

EngineInit ==
  /\ rkind \in [Requests -> {"batch", "preview"}]
  /\ rleft \in [Requests -> 0..MaxFiles]
  /\ \A r \in Requests : (rkind[r] = "preview") = (rleft[r] = 0)
  /\ rpc = [r \in Requests |-> IF rkind[r] = "batch" THEN "save" ELSE "ready"]
  /\ loop_owner = 0
  /\ in_engine = {}
  /\ invocations = 0

\* Faulty variant of RunsOnLoopThread: the call is handed to an executor.
RunsOnLoopThread_Executor == FALSE

\* imagej_service.py line 179, image_service.py line 71: runMacro is called
\* synchronously inside the coroutine, so the loop thread is busy until it returns.
RunsOnLoopThread == TRUE

LoopFree == loop_owner = 0

EngineIdleVars == <<streamVars, batchVars, zipVars, waitVars, lifeVars, cleanVars, storeVars, sweepVars>>

\* imagej_service.py line 166: await _save_upload_file.
RqSave ==
  /\ LoopFree
  /\ \E r \in Requests :
       /\ rpc[r] = "save"
       /\ rpc' = [rpc EXCEPT ![r] = "ready"]
  /\ UNCHANGED <<rkind, rleft, loop_owner, in_engine, invocations>>
  /\ UNCHANGED EngineIdleVars

\* imagej_service.py lines 170-179, image_service.py lines 67-71: the script is
\* prepared and runMacro is entered.
RqInvoke ==
  /\ LoopFree
  /\ \E r \in Requests :
       /\ rpc[r] = "ready"
       /\ rpc' = [rpc EXCEPT ![r] = "invoking"]
       /\ in_engine' = in_engine \cup {r}
       /\ loop_owner' = IF RunsOnLoopThread THEN r ELSE 0
  /\ UNCHANGED <<rkind, rleft, invocations>>
  /\ UNCHANGED EngineIdleVars

\* runMacro returns, or raises.
RqInvokeEnds ==
  /\ \E r \in Requests :
       /\ rpc[r] = "invoking"
       /\ loop_owner = (IF RunsOnLoopThread THEN r ELSE 0)
       /\ rpc' = [rpc EXCEPT ![r] = "after"]
       /\ in_engine' = in_engine \ {r}
  /\ loop_owner' = 0
  /\ invocations' = invocations + 1
  /\ UNCHANGED <<rkind, rleft>>
  /\ UNCHANGED EngineIdleVars

\* imagej_service.py lines 183-185 and 162: await parse_saved_files, then the
\* next file or the end of the loop.
RqCollect ==
  /\ LoopFree
  /\ \E r \in Requests :
       /\ rkind[r] = "batch" /\ rpc[r] = "after"
       /\ rleft' = [rleft EXCEPT ![r] = rleft[r] - 1]
       /\ rpc' = [rpc EXCEPT ![r] = IF rleft[r] > 1 THEN "save" ELSE "aggregate"]
  /\ UNCHANGED <<rkind, loop_owner, in_engine, invocations>>
  /\ UNCHANGED EngineIdleVars

\* imagej_service.py lines 192-212: await create_zip_file, or a raise.
RqAggregate ==
  /\ LoopFree
  /\ \E r \in Requests :
       /\ rpc[r] = "aggregate"
       /\ rpc' = [rpc EXCEPT ![r] = "done"]
  /\ UNCHANGED <<rkind, rleft, loop_owner, in_engine, invocations>>
  /\ UNCHANGED EngineIdleVars

\* image_service.py lines 76-98: await _wait_for_file_content and
\* _wait_for_file, then the end of run_preview_macro.
RqPreviewWaits ==
  /\ LoopFree
  /\ \E r \in Requests :
       /\ rkind[r] = "preview" /\ rpc[r] \in {"after", "waited"}
       /\ rpc' = [rpc EXCEPT ![r] = IF rpc[r] = "after" THEN "waited" ELSE "done"]
  /\ UNCHANGED <<rkind, rleft, loop_owner, in_engine, invocations>>
  /\ UNCHANGED EngineIdleVars

EngineStep ==
  \/ RqSave \/ RqInvoke \/ RqInvokeEnds \/ RqCollect \/ RqAggregate \/ RqPreviewWaits

\* ------------------------------------------------ one section_change event
\* The tokens section_content may be made of.
CleanAlphabet == {DESCRIPTION, EXPLANATION, FENCE, JAVASCRIPT, COMMENT, NL, SP, WORD}

\* generate_macro_from_prompt is about to build a section_change event from its
\* section_content, which is not empty (atlas_service.py lines 98-101, 114).
\* Content without a trigger can only be flushed at the end; content holding a
\* marker is the content of a transition, or, when the marker arrived split
\* over two deltas, of the flush.
CleanInit ==
  /\ kpc = "called"
  /\ ksection \in {"description", "macro_script", "explanation"}
  /\ kcontent \in UNION {[1..n -> CleanAlphabet] : n \in 1..MaxContent}
  /\ kpath \in {"transition", "flush"}
  /\ kpath = "transition" => handle_section_transition(kcontent, ksection)
  /\ kevent = [event |-> "none"]

\* Lines 101-102 (process_section_change) or lines 115-121 (the final flush).
CleanCall ==
  /\ kpc = "called"
  /\ kevent' = IF kpath = "transition"
               THEN process_section_change(ksection, kcontent)[1]
               ELSE SectionChange(ksection,
                                  clean_section_content(ksection, Strip(kcontent)))
  /\ kpc' = "done"
  /\ UNCHANGED <<kpath, ksection, kcontent>>
  /\ UNCHANGED nonCleanVars

CleanStep == CleanCall

\* ------------------------------------------------------ the engine handle
\* imagej_service.py line 39: the default of the parameter retries.
retries == 3

\* The service object after construction (lines 26-33), when startup calls
\* initialize (__init__.py line 108).
LifeInit ==
  /\ lpc = "configure"
  /\ attempt = 1
  /\ ij = 0
  /\ classes = FALSE
  /\ contexts = 0
  /\ disposals = <<>>
  /\ shutdowns = 0

\* Faulty variant of InitHandler: the loop allows one attempt too many.
InitHandler_OneMore ==
  IF attempt <= retries
  THEN lpc' = "retrying"
  ELSE lpc' = "failed"

\* Lines 75-82: the except clause of an attempt.
InitHandler ==
  IF attempt < retries
  THEN lpc' = "retrying"
  ELSE lpc' = "failed"

\* Lines 78-79, 50: the delay is slept and the next attempt starts.
InitRetries ==
  /\ lpc = "retrying"
  /\ attempt' = attempt + 1
  /\ lpc' = "configure"
  /\ UNCHANGED <<ij, classes, contexts, disposals, shutdowns>>
  /\ UNCHANGED nonLifeVars

\* Lines 52-62: the Java options are configured.
InitConfigures ==
  /\ lpc = "configure"
  /\ lpc' = "init"
  /\ UNCHANGED <<attempt, ij, classes, contexts, disposals, shutdowns>>
  /\ UNCHANGED nonLifeVars

\* Line 64: imagej.init returns a gateway with a context of its own, and self.ij
\* is set to it, whatever it referred to before.
InitCreates ==
  /\ lpc = "init"
  /\ contexts' = contexts + 1
  /\ disposals' = Append(disposals, 0)
  /\ ij' = contexts + 1
  /\ lpc' = "headless"
  /\ UNCHANGED <<attempt, classes, shutdowns>>
  /\ UNCHANGED nonLifeVars

\* Lines 67-74: setHeadless, the import of the classes (self.IJ and self.BF are
\* set), the version log, and the break out of the loop.
InitPostStep ==
  /\ lpc \in {"headless", "import", "log"}
  /\ lpc' = CASE lpc = "headless" -> "import"
              [] lpc = "import" -> "log"
              [] lpc = "log" -> "initialized"
  /\ classes' = (classes \/ lpc = "import")
  /\ UNCHANGED <<attempt, ij, contexts, disposals, shutdowns>>
  /\ UNCHANGED nonLifeVars

\* Lines 59-70, 75-82: a step of the attempt raises; the except clause starts
\* the next attempt or raises RuntimeError.
InitRaises ==
  /\ lpc \in {"configure", "init", "headless", "import", "log"}
  /\ InitHandler
  /\ UNCHANGED <<attempt, ij, classes, contexts, disposals, shutdowns>>
  /\ UNCHANGED nonLifeVars

\* Lines 270-278, called by shutdown_event (__init__.py lines 115-123) once
\* initialize has returned or raised.
Shutdown ==
  /\ lpc \in {"initialized", "failed", "down"}
  /\ shutdowns < MaxShutdowns
  /\ IF ij # 0
     THEN /\ disposals' = [disposals EXCEPT ![ij] = @ + 1]
          /\ ij' = 0
     ELSE UNCHANGED <<ij, disposals>>
  /\ classes' = FALSE
  /\ shutdowns' = shutdowns + 1
  /\ lpc' = "down"
  /\ UNCHANGED <<attempt, contexts>>
  /\ UNCHANGED nonLifeVars

\* Line 273: dispose raises and the context is not released; the handle and the
\* classes stay set and shutdown_event logs the exception (__init__.py
\* lines 122-123).
ShutdownRaises ==
  /\ lpc \in {"initialized", "failed", "down"}
  /\ shutdowns < MaxShutdowns
  /\ ij # 0
  /\ shutdowns' = shutdowns + 1
  /\ lpc' = "down"
  /\ UNCHANGED <<attempt, ij, classes, contexts, disposals>>
  /\ UNCHANGED nonLifeVars

\* the steps of initialize, which runs in one thread to its return or raise
InitProgress ==
  InitConfigures \/ InitCreates \/ InitPostStep \/ InitRaises \/ InitRetries

LifeStep ==
  \/ InitConfigures \/ InitCreates \/ InitPostStep \/ InitRaises \/ InitRetries
  \/ Shutdown \/ ShutdownRaises

\* ------------------------------------------------------ the metadata store
\* A record of ImageMetadata; its paths are told by its file_name.
ImageMetadata(name) == [file_name |-> name]

original_path(name) == <<"original", name>>

preview_path(name) == <<"preview", name>>

\* The record an earlier upload may have left, and a name no record has.
StoredName == <<0, "x">>
LookupNames == {StoredName, <<0, "y">>}

UploadNames == {"a", "b"}

UploadLists ==
  UNION {[1..n -> UploadNames] : n \in 1..MaxUploads}

StoreRequests ==
  {[kind |-> "upload", files |-> fl] : fl \in UploadLists}
    \cup {[kind |-> k, filename |-> n] : k \in {"delete", "preview"}, n \in LookupNames}

\* process_image line 46: a fresh uuid is put before the name, so that no two
\* uploads share a unique_filename.
unique_filename(i) == <<i, request.files[i]>>

\* db.commit(): the pending changes of the session become the store's.
Commit ==
  (db \ {c.rec : c \in {c \in session : c.op = "delete"}})
    \cup {c.rec : c \in {c \in session : c.op = "add"}}

\* db.query(ImageMetadata).filter(file_name == filename).first()
Query(filename) == {r \in db : r.file_name = filename}

\* A request arrives with the store as earlier requests left it.
StoreInit ==
  /\ request \in StoreRequests
  /\ hpc = CASE request.kind = "upload" -> "loop"
             [] request.kind = "delete" -> "d_query"
             [] request.kind = "preview" -> "p_query"
  /\ upload_idx = IF request.kind = "upload" THEN 1 ELSE 0
  /\ results = <<>>
  /\ db \in SUBSET {ImageMetadata(StoredName)}
  /\ session = {}
  /\ disk \in SUBSET {original_path(StoredName), preview_path(StoredName)}
  /\ upload_tasks = <<>>
  /\ answer = [status |-> 0]
  /\ found = [db |-> db, disk |-> disk]
  /\ faults = <<>>

\* ------------------------------------------------------ handle_initial_upload
\* image_routes.py line 67: the temporary directory of the file.
UploadMkdtemp ==
  /\ hpc = "loop"
  /\ hpc' = "save"
  /\ UNCHANGED <<request, upload_idx, results, db, session, disk, upload_tasks, answer,
                 found, faults>>
  /\ UNCHANGED nonStoreVars

\* Line 67 raises: no try is open, the exception leaves handle_initial_upload
\* and upload_image answers it (lines 51-54).
UploadMkdtempRaises ==
  /\ hpc = "loop"
  /\ faults' = Append(faults, "mkdtemp")
  /\ session' = {}
  /\ answer' = [status |-> 500, detail |-> "Error processing files."]
  /\ hpc' = "answered"
  /\ UNCHANGED <<request, upload_idx, results, db, disk, upload_tasks, found>>
  /\ UNCHANGED nonStoreVars

\* Lines 69-72: the upload is written into the directory.
UploadSave ==
  /\ hpc = "save"
  /\ disk' = disk \cup {original_path(unique_filename(upload_idx))}
  /\ hpc' = "process"
  /\ UNCHANGED <<request, upload_idx, results, db, session, upload_tasks, answer, found,
                 faults>>
  /\ UNCHANGED nonStoreVars

\* Lines 74-76: process_image returns once the preview file exists.
UploadProcess ==
  /\ hpc = "process"
  /\ disk' = disk \cup {preview_path(unique_filename(upload_idx))}
  /\ hpc' = "preview"
  /\ UNCHANGED <<request, upload_idx, results, db, session, upload_tasks, answer, found,
                 faults>>
  /\ UNCHANGED nonStoreVars

\* Line 77: generate_image_preview.
UploadPreview ==
  /\ hpc = "preview"
  /\ hpc' = "add"
  /\ UNCHANGED <<request, upload_idx, results, db, session, disk, upload_tasks, answer,
                 found, faults>>
  /\ UNCHANGED nonStoreVars

\* Lines 79-86: the record is added to the session.
UploadAdd ==
  /\ hpc = "add"
  /\ session' = session \cup {[op |-> "add", rec |-> ImageMetadata(unique_filename(upload_idx))]}
  /\ hpc' = "commit"
  /\ UNCHANGED <<request, upload_idx, results, db, disk, upload_tasks, answer, found,
                 faults>>
  /\ UNCHANGED nonStoreVars

\* Lines 87-97: the commit, then the entry of the file.
UploadCommit ==
  /\ hpc = "commit"
  /\ db' = Commit
  /\ session' = {}
  /\ results' = Append(results, [filename |-> request.files[upload_idx],
                                 unique_filename |-> unique_filename(upload_idx)])
  /\ hpc' = "finally"
  /\ UNCHANGED <<request, upload_idx, disk, upload_tasks, answer, found, faults>>
  /\ UNCHANGED nonStoreVars

\* A step of lines 69-87 raises; line 99 catches it.
UploadStepRaises ==
  /\ hpc \in {"save", "process", "preview", "add", "commit"}
  /\ faults' = Append(faults, hpc)
  /\ hpc' = "except"
  /\ UNCHANGED <<request, upload_idx, results, db, session, disk, upload_tasks, answer,
                 found>>
  /\ UNCHANGED nonStoreVars

\* Lines 99-105: the rollback, then the error entry of the file.
UploadExcept ==
  /\ hpc = "except"
  /\ session' = {}
  /\ results' = Append(results, [filename |-> request.files[upload_idx], error |-> "e"])
  /\ hpc' = "finally"
  /\ UNCHANGED <<request, upload_idx, db, disk, upload_tasks, answer, found, faults>>
  /\ UNCHANGED nonStoreVars

\* Line 101 raises: the finally clause runs, the exception leaves
\* handle_initial_upload and upload_image answers it (lines 51-54).
UploadRollbackRaises ==
  /\ hpc = "except"
  /\ faults' = Append(faults, "rollback")
  /\ upload_tasks' = Append(upload_tasks, upload_idx)
  /\ answer' = [status |-> 500, detail |-> "Error processing files."]
  /\ hpc' = "answered"
  /\ UNCHANGED <<request, upload_idx, results, db, session, disk, found>>
  /\ UNCHANGED nonStoreVars

\* Lines 106-109: the removal of the directory is scheduled; the loop goes on,
\* or the entries are returned.
UploadFinally ==
  /\ hpc = "finally"
  /\ upload_tasks' = Append(upload_tasks, upload_idx)
  /\ IF upload_idx < Len(request.files)
     THEN /\ upload_idx' = upload_idx + 1
          /\ hpc' = "loop"
          /\ UNCHANGED answer
     ELSE /\ answer' = [status |-> 200, results |-> results]
          /\ hpc' = "answered"
          /\ UNCHANGED upload_idx
  /\ UNCHANGED <<request, results, db, session, disk, found, faults>>
  /\ UNCHANGED nonStoreVars

\* ------------------------------------------------------ delete_image
\* image_routes.py lines 133-136: what the except clause of delete_image answers.
DeleteExcept == [status |-> 500, detail |-> "Error deleting image."]

\* Lines 120-122, 133-136: no record; the HTTPException(404) is raised inside
\* the try, and `except Exception` catches it.
DeleteNotFound ==
  /\ hpc = "d_query" /\ Query(request.filename) = {}
  /\ session' = {}
  /\ answer' = DeleteExcept
  /\ hpc' = "answered"
  /\ UNCHANGED <<request, upload_idx, results, db, disk, upload_tasks, found, faults>>
  /\ UNCHANGED nonStoreVars

\* Lines 120-121: the record is there.
DeleteFound ==
  /\ hpc = "d_query" /\ Query(request.filename) # {}
  /\ hpc' = "d_remove"
  /\ UNCHANGED <<request, upload_idx, results, db, session, disk, upload_tasks, answer,
                 found, faults>>
  /\ UNCHANGED nonStoreVars

\* Lines 125-130: the files that exist are removed, the record is marked.
DeleteRemoves ==
  /\ hpc = "d_remove"
  /\ disk' = disk \ {original_path(request.filename), preview_path(request.filename)}
  /\ session' = {[op |-> "delete", rec |-> r] : r \in Query(request.filename)}
  /\ hpc' = "d_commit"
  /\ UNCHANGED <<request, upload_idx, results, db, upload_tasks, answer, found, faults>>
  /\ UNCHANGED nonStoreVars

\* Lines 131-132.
DeleteCommits ==
  /\ hpc = "d_commit"
  /\ db' = Commit
  /\ session' = {}
  /\ answer' = [status |-> 200, message |-> "Image deleted successfully"]
  /\ hpc' = "answered"
  /\ UNCHANGED <<request, upload_idx, results, disk, upload_tasks, found, faults>>
  /\ UNCHANGED nonStoreVars

\* The query, a removal or the commit raises (lines 133-136); a removal that
\* raises may follow one that was made.
DeleteRaises ==
  /\ hpc \in {"d_query", "d_remove", "d_commit"}
  /\ faults' = Append(faults, hpc)
  /\ disk' \in IF hpc = "d_remove"
               THEN {disk, disk \ {original_path(request.filename)}}
               ELSE {disk}
  /\ session' = {}
  /\ answer' = DeleteExcept
  /\ hpc' = "answered"
  /\ UNCHANGED <<request, upload_idx, results, db, upload_tasks, found>>
  /\ UNCHANGED nonStoreVars

\* ------------------------------------------------------ get_image_preview
\* image_routes.py lines 187-189: what the except clause answers.
PreviewExcept == [status |-> 500, detail |-> "Error generating image preview."]

\* Line 181: there is a record and its preview file exists.
PreviewThere ==
  /\ Query(request.filename) # {}
  /\ preview_path(request.filename) \in disk

\* Lines 181-182, 187-189: the HTTPException(404) is raised inside the try, and
\* `except Exception` catches it.
PreviewNotFound ==
  /\ hpc = "p_query" /\ ~PreviewThere
  /\ answer' = PreviewExcept
  /\ hpc' = "answered"
  /\ UNCHANGED <<request, upload_idx, results, db, session, disk, upload_tasks, found,
                 faults>>
  /\ UNCHANGED nonStoreVars

PreviewFound ==
  /\ hpc = "p_query" /\ PreviewThere
  /\ hpc' = "p_generate"
  /\ UNCHANGED <<request, upload_idx, results, db, session, disk, upload_tasks, answer,
                 found, faults>>
  /\ UNCHANGED nonStoreVars

\* Lines 184-185.
PreviewReturns ==
  /\ hpc = "p_generate"
  /\ answer' = [status |-> 200, preview |-> request.filename]
  /\ hpc' = "answered"
  /\ UNCHANGED <<request, upload_idx, results, db, session, disk, upload_tasks, found,
                 faults>>
  /\ UNCHANGED nonStoreVars

\* The query or generate_image_preview raises (lines 187-189).
PreviewRaises ==
  /\ hpc \in {"p_query", "p_generate"}
  /\ faults' = Append(faults, hpc)
  /\ answer' = PreviewExcept
  /\ hpc' = "answered"
  /\ UNCHANGED <<request, upload_idx, results, db, session, disk, upload_tasks, found>>
  /\ UNCHANGED nonStoreVars

StoreStep ==
  \/ UploadMkdtemp \/ UploadMkdtempRaises \/ UploadSave \/ UploadProcess
  \/ UploadPreview \/ UploadAdd \/ UploadCommit \/ UploadStepRaises
  \/ UploadExcept \/ UploadRollbackRaises \/ UploadFinally
  \/ DeleteNotFound \/ DeleteFound \/ DeleteRemoves \/ DeleteCommits \/ DeleteRaises
  \/ PreviewNotFound \/ PreviewFound \/ PreviewReturns \/ PreviewRaises

\* ------------------------------------------------ cleanup_temp_files alone
Tasks == 1..MaxTasks

\* The tasks are not yet called; the path is a directory, a file, or gone already.
SweepInit ==
  /\ sweep_pc = [t \in Tasks |-> "uncalled"]
  /\ sweep_due = [t \in Tasks |-> 0]
  /\ sweep_clock = 0
  /\ sweep_target \in {"dir", "file", "gone"}
  /\ sweep_log = [t \in Tasks |-> "none"]

\* file_service.py lines 162, 170: the scheduler calls the task, which sleeps
\* for its delay.
SweepCalled ==
  \E t \in Tasks, delay \in 0..MaxDelay :
    /\ sweep_pc[t] = "uncalled"
    /\ sweep_clock + delay <= SweepHorizon
    /\ sweep_due' = [sweep_due EXCEPT ![t] = sweep_clock + delay]
    /\ sweep_pc' = [sweep_pc EXCEPT ![t] = "sleeping"]
    /\ UNCHANGED <<sweep_clock, sweep_target, sweep_log>>
    /\ UNCHANGED nonSweepVars

\* Time passes.
SweepTick ==
  /\ sweep_clock < SweepHorizon
  /\ sweep_clock' = sweep_clock + 1
  /\ UNCHANGED <<sweep_pc, sweep_due, sweep_target, sweep_log>>
  /\ UNCHANGED nonSweepVars

\* Line 170: the sleep of the task is over.
Awake(t) == sweep_pc[t] = "sleeping" /\ sweep_clock >= sweep_due[t]

\* Lines 173-178: the directory or the file is removed.
SweepRemoves ==
  \E t \in Tasks :
    /\ Awake(t) /\ sweep_target \in {"dir", "file"}
    /\ sweep_target' = "gone"
    /\ sweep_log' = [sweep_log EXCEPT ![t] = "removed"]
    /\ sweep_pc' = [sweep_pc EXCEPT ![t] = "done"]
    /\ UNCHANGED <<sweep_due, sweep_clock>>
    /\ UNCHANGED nonSweepVars

\* Faulty variant of SweepRaises: the exception of the removal leaves the task.
SweepRaises_Propagates ==
  \E t \in Tasks :
    /\ Awake(t) /\ sweep_target \in {"dir", "file"}
    /\ sweep_pc' = [sweep_pc EXCEPT ![t] = "raised"]
    /\ UNCHANGED <<sweep_due, sweep_clock, sweep_target, sweep_log>>
    /\ UNCHANGED nonSweepVars

\* Lines 174, 177, 181-182: rmtree or unlink raises; the exception is logged
\* and the task ends.
SweepRaises ==
  \E t \in Tasks :
    /\ Awake(t) /\ sweep_target \in {"dir", "file"}
    /\ sweep_log' = [sweep_log EXCEPT ![t] = "error"]
    /\ sweep_pc' = [sweep_pc EXCEPT ![t] = "done"]
    /\ UNCHANGED <<sweep_due, sweep_clock, sweep_target>>
    /\ UNCHANGED nonSweepVars

\* Lines 179-180: the path is neither a directory nor a file; a warning is logged.
SweepNotFound ==
  \E t \in Tasks :
    /\ Awake(t) /\ sweep_target = "gone"
    /\ sweep_log' = [sweep_log EXCEPT ![t] = "warning"]
    /\ sweep_pc' = [sweep_pc EXCEPT ![t] = "done"]
    /\ UNCHANGED <<sweep_due, sweep_clock, sweep_target>>
    /\ UNCHANGED nonSweepVars

\* what a task does once it is awake
SweepActs == SweepRemoves \/ SweepRaises \/ SweepNotFound

SweepStep ==
  \/ SweepCalled \/ SweepTick
  \/ SweepRemoves \/ SweepRaises \/ SweepNotFound

\* ------------------------------------------------------------ specifications
\* Each specification runs one request; the variables of the other stay idle.
StreamIdle ==
  /\ spc = "done"
  /\ improve_prompt = FALSE
  /\ chunks = <<>>
  /\ prompt = ""
  /\ sent = <<>>
  /\ connected = TRUE
  /\ observed = FALSE
  /\ pending = None
  /\ gpc = "created"
  /\ current_section = "description"
  /\ section_content = <<>>
  /\ deltas = <<>>
  /\ events = <<>>
  /\ upstream = "ok"

BatchIdle ==
  /\ bpc = "idle"
  /\ files = <<>>
  /\ macro_script = ""
  /\ execute_macro = FALSE
  /\ temp_dir = "none"
  /\ dir_exists = FALSE
  /\ idx = 0
  /\ fs = EmptyFs
  /\ logfile = NoFile
  /\ output = <<>>
  /\ output_files = <<>>
  /\ error_logs = <<>>
  /\ archive = NoFile
  /\ result = NoResult
  /\ response = [kind |-> "none"]
  /\ background_tasks = <<>>
  /\ cpc = "none"
  /\ invoked = <<>>
  /\ raised_at = <<>>
  /\ collected = <<>>

ZipIdle ==
  /\ zpc = "idle"
  /\ zip_paths = <<>>
  /\ zip_root = "canon"
  /\ zip_fs = EmptyFs
  /\ zip_result = ZipFailed

WaitIdle ==
  /\ wkind = "none"
  /\ wpc = "done"
  /\ now = 0
  /\ wfile = Absent
  /\ file_size = 0
  /\ polls = 0
  /\ woutcome = "none"
  /\ last_poll = Absent
  /\ stable_seen = FALSE
  /\ ever_existed = FALSE
  /\ ever_content = FALSE

EngineIdle ==
  /\ rkind = <<>>
  /\ rpc = <<>>
  /\ rleft = <<>>
  /\ loop_owner = 0
  /\ in_engine = {}
  /\ invocations = 0

LifeIdle ==
  /\ lpc = "idle"
  /\ attempt = 0
  /\ ij = 0
  /\ classes = FALSE
  /\ contexts = 0
  /\ disposals = <<>>
  /\ shutdowns = 0

CleanIdle ==
  /\ kpc = "idle"
  /\ kpath = "none"
  /\ ksection = "description"
  /\ kcontent = <<>>
  /\ kevent = [event |-> "none"]

StoreIdle ==
  /\ hpc = "idle"
  /\ request = [kind |-> "none"]
  /\ upload_idx = 0
  /\ results = <<>>
  /\ db = {}
  /\ session = {}
  /\ disk = {}
  /\ upload_tasks = <<>>
  /\ answer = [status |-> 0]
  /\ found = [db |-> {}, disk |-> {}]
  /\ faults = <<>>

SweepIdle ==
  /\ sweep_pc = <<>>
  /\ sweep_due = <<>>
  /\ sweep_clock = 0
  /\ sweep_target = "gone"
  /\ sweep_log = <<>>

OthersIdle == LifeIdle /\ CleanIdle /\ StoreIdle /\ SweepIdle

InitStream == StreamInit /\ BatchIdle /\ ZipIdle /\ WaitIdle /\ EngineIdle /\ OthersIdle
StreamNext == StreamStep
SpecStream == InitStream /\ [][StreamNext]_vars

InitBatch == BatchInit /\ StreamIdle /\ ZipIdle /\ WaitIdle /\ EngineIdle /\ OthersIdle
BatchNext == BatchStep
SpecBatch == InitBatch /\ [][BatchNext]_vars

InitZip == ZipInit /\ StreamIdle /\ BatchIdle /\ WaitIdle /\ EngineIdle /\ OthersIdle
ZipNext == ZipStep
SpecZip == InitZip /\ [][ZipNext]_vars

InitWait == WaitInit /\ StreamIdle /\ BatchIdle /\ ZipIdle /\ EngineIdle /\ OthersIdle
WaitNext == WaitStep
SpecWait == InitWait /\ [][WaitNext]_vars
\* the event loop keeps running the waiting coroutine; the external process
\* owes nothing
FairSpecWait == SpecWait /\ WF_vars(WaitProgress)

InitEngine == EngineInit /\ StreamIdle /\ BatchIdle /\ ZipIdle /\ WaitIdle /\ OthersIdle
EngineNext == EngineStep
SpecEngine == InitEngine /\ [][EngineNext]_vars

AllRequestsIdle ==
  StreamIdle /\ BatchIdle /\ ZipIdle /\ WaitIdle /\ EngineIdle /\ StoreIdle /\ SweepIdle

InitLife == LifeInit /\ AllRequestsIdle /\ CleanIdle
LifeNext == LifeStep
SpecLife == InitLife /\ [][LifeNext]_vars
\* every call initialize makes returns or raises, and the thread that runs
\* initialize keeps running; shutdown owes nothing
FairSpecLife == SpecLife /\ WF_vars(InitProgress)

InitStore ==
  /\ StoreInit /\ SweepIdle /\ LifeIdle /\ CleanIdle
  /\ StreamIdle /\ BatchIdle /\ ZipIdle /\ WaitIdle /\ EngineIdle
StoreNext == StoreStep
SpecStore == InitStore /\ [][StoreNext]_vars

InitSweep ==
  /\ SweepInit /\ StoreIdle /\ LifeIdle /\ CleanIdle
  /\ StreamIdle /\ BatchIdle /\ ZipIdle /\ WaitIdle /\ EngineIdle
SweepNext == SweepStep
SpecSweep == InitSweep /\ [][SweepNext]_vars
\* time passes, and a task that is awake runs: the code between the sleep and
\* the return holds no await
FairSpecSweep == SpecSweep /\ WF_vars(SweepTick) /\ WF_vars(SweepActs)

InitClean == CleanInit /\ AllRequestsIdle /\ LifeIdle
CleanNext == CleanStep
SpecClean == InitClean /\ [][CleanNext]_vars

\* ------------------------------------------------------------------ claims
\* Helpers for statements about event sequences.
CountKind(seq, kind) == Cardinality({i \in 1..Len(seq) : seq[i].event = kind})

RECURSIVE SectionsOf(_)
\* the sections of the section_change events of seq, in order
SectionsOf(seq) ==
  IF seq = <<>> THEN <<>>
  ELSE IF Head(seq).event = "section_change"
       THEN <<Head(seq).data.section>> \o SectionsOf(Tail(seq))
       ELSE SectionsOf(Tail(seq))

DeltasWith(tok) == {i \in 1..Len(deltas) : Contains(deltas[i], tok)}

\* the delta sequence holds exactly one delta with each of the three markers
OneOfEachMarker ==
  /\ Cardinality(DeltasWith(DESCRIPTION)) = 1
  /\ Cardinality(DeltasWith(FENCE)) = 1
  /\ Cardinality(DeltasWith(EXPLANATION)) = 1

\* the generation ended without upstream failure
GenerationEnded == gpc \in {"completed", "ended"}

\* C1 (as claimed): a generation that ended without failure, over deltas holding
\* exactly one description marker, one code fence and one explanation marker, has
\* emitted exactly three section_change events, for description, macro_script and
\* explanation in that order, and then one trailing complete event.
C1_ThreeSectionsInOrder ==
  (GenerationEnded /\ OneOfEachMarker) =>
    /\ SectionsOf(events) = <<"description", "macro_script", "explanation">>
    /\ CountKind(events, "complete") = 1
    /\ events[Len(events)] = Complete

\* C2 (as claimed): when the backend raised during macro generation and the client
\* stayed connected, the finished client stream carries exactly one error event,
\* and that event is its last.
C2_ExactlyOneErrorEvent ==
  (spc = "done" /\ upstream # "ok" /\ connected) =>
    /\ CountKind(sent, "error") = 1
    /\ sent[Len(sent)].event = "error"

\* ------------------------------------------------------------------ batch claims
FileSteps == {"render", "invoke", "collect"}

SanitizedName(k) == secure_filename(files[k].filename)

RECURSIVE ExpectedEntries(_, _)
\* in file order, one entry for each of the files 1..k whose step in steps raised
ExpectedEntries(k, steps) ==
  IF k = 0 THEN <<>>
  ELSE ExpectedEntries(k - 1, steps)
       \o (IF raised_at[k] \in steps THEN <<FileEntry(SanitizedName(k))>> ELSE <<>>)

IsFileEntry(e) == e.text = "Error processing"

RECURSIVE CollectedUpTo(_)
\* the lists collected for the files 1..k, concatenated
CollectedUpTo(k) ==
  IF k = 0 THEN <<>> ELSE CollectedUpTo(k - 1) \o collected[k].content

Range(seq) == {seq[i] : i \in DOMAIN seq}

\* execute_image_macro has ended, by return or by raise
Ended == bpc \in {"exited", "responded"} /\ result # RaisedHTTP(400, NoFilesUploaded)

\* the loop handled file k to its end: its outputs were collected, or it has an
\* error entry
Handled(k) == collected[k].exists \/ raised_at[k] \in FileSteps

\* the file was written to its working path
Persisted(k) ==
  /\ raised_at[k] # "save"
  /\ \/ k < idx
     \/ k = idx /\ bpc \notin {"save"}

\* the job whose outputs were collected last, with the file system as it was then
JustCollected(k) ==
  /\ collected[k].exists
  /\ \/ bpc = "save" /\ k = idx - 1
     \/ bpc = "aggregate" /\ k = idx

DeclaredIn(lines, rel) ==
  \E i \in DOMAIN lines : lines[i].tag = "OUTPUT_FILE:" /\ lines[i].path.rel = rel

ValidFile(rel) == Exists(fs, rel) /\ fs[rel] > 0

\* C3 (as claimed): an exception at any step of a file (save, render, invoke,
\* collect) leaves an error entry naming that file, and every later file of the
\* batch is still handled by the time execute_image_macro ends.
C3_PerFileIsolation ==
  /\ SelectSeq(error_logs, IsFileEntry)
       = ExpectedEntries(Len(files), FileSteps \cup {"save"})
  /\ Ended =>
       \A k \in DOMAIN files :
         raised_at[k] # "none" => \A j \in DOMAIN files : j > k => Handled(j)

C5_NoOutputsFailsBatch ==
  (Ended /\ \A k \in DOMAIN files : Handled(k) /\ collected[k].content = <<>>) =>
    /\ result = RaisedHTTP(500, NoOutputFiles)
    /\ NoOutputFiles # ZipFailure
    /\ ~archive.exists
    /\ error_logs[Len(error_logs)] = BatchEntry(NoOutputFiles)
    /\ bpc = "responded" =>
         response = [kind |-> "error", status |-> 500, detail |-> NoOutputFiles]

\* C5 witness: the batch failed for want of outputs with no per-file error.
C5_Witness ==
  /\ bpc = "responded"
  /\ result = RaisedHTTP(500, NoOutputFiles)
  /\ \A k \in DOMAIN files : raised_at[k] = "none"

\* C6: whenever execute_image_macro has ended after creating a working
\* directory, exactly one cleanup of that directory is scheduled; none is
\* scheduled while it still runs.
C6_CleanupAlwaysScheduled ==
  /\ (Ended /\ temp_dir # "none") => background_tasks = <<CleanupTask(temp_dir)>>
  /\ ~Ended => background_tasks = <<>>

\* C6 witness: an exception escaped the per-file loop and cleanup is scheduled.
C6_Witness ==
  /\ Ended /\ result = RaisedOther("save")
  /\ background_tasks = <<CleanupTask(temp_dir)>>

\* C7 (as claimed, for a run in which the scheduler ran the task to its end):
\* once the cleanup task of a working directory has finished, the directory
\* no longer exists.
C7_DirectoryDeleted ==
  cpc = "done" => ~dir_exists

\* C8 (as claimed): two files of a batch that were both persisted have
\* different working paths.
C8_DistinctWorkingPaths ==
  \A j, k \in DOMAIN files :
    (j # k /\ Persisted(j) /\ Persisted(k)) =>
      TopLevel(SanitizedName(j)) # TopLevel(SanitizedName(k))

\* C9 (as claimed): the list collected for a job holds exactly the files that
\* exist with non-zero size and are declared by an OUTPUT_FILE line of the log
\* or begin with the stem of the job, each of them once.
C9_CollectedExactlyOnce ==
  \A k \in DOMAIN files :
    JustCollected(k) =>
      LET got == collected[k].content
          want == {rel \in DOMAIN fs :
                     /\ fs[rel] > 0
                     /\ \/ DeclaredIn(logfile.content, rel)
                        \/ StartsWith(rel.name, splitext_root(SanitizedName(k)))}
      IN /\ {p.rel : p \in Range(got)} = want
         /\ Len(got) = Cardinality(want)

\* C10 (as claimed): every file that an OUTPUT_FILE line of the text returned by
\* the engine declares, and that exists with non-zero size, is in the list
\* collected for that job.
C10_DeclaredInReturnedText ==
  \A k \in DOMAIN files :
    JustCollected(k) =>
      \A i \in DOMAIN output :
        (output[i].tag = "OUTPUT_FILE:" /\ ValidFile(output[i].path.rel)) =>
          \E p \in Range(collected[k].content) : p.rel = output[i].path.rel

\* ------------------------------------------------------------------ archive claims
RECURSIVE FirstOccurrences(_, _)
\* the paths of the list that exist, each at its first occurrence only
FirstOccurrences(paths, seen) ==
  IF paths = <<>> THEN <<>>
  ELSE LET path == AsPath(Head(paths))
       IN IF Exists(zip_fs, path.rel) /\ path \notin seen
          THEN <<path>> \o FirstOccurrences(Tail(paths), seen \cup {path})
          ELSE FirstOccurrences(Tail(paths), seen)

\* C11 (as claimed): create_zip_file reports success only for an archive with
\* at least one member.
C11_NoEmptyArchive ==
  (zpc = "done" /\ zip_result.ok) => zip_result.members # <<>>

\* C12 (as claimed): for a non-empty list create_zip_file succeeds, and the
\* members of the archive are the distinct existing paths of the list, each
\* once, in the order of their first occurrence.
C12_MembersAreDistinctExisting ==
  (zpc = "done" /\ zip_paths # <<>>) =>
    LET want == FirstOccurrences(zip_paths, {})
    IN /\ zip_result.ok
       /\ zip_result.members = [i \in DOMAIN want |-> want[i].rel]

\* C31: every member of an archive create_zip_file reports as built is a listed
\* file spelled under the archive's parent directory, stored under its path
\* relative to that directory; no existing path of the list that lies
\* elsewhere is stored under any name.
C31_MembersRelativeToParent ==
  (zpc = "done" /\ zip_result.ok) =>
    /\ \A i \in DOMAIN zip_result.members :
         \E j \in DOMAIN zip_paths :
           /\ AsPath(zip_paths[j]).rel = zip_result.members[i]
           /\ AsPath(zip_paths[j]).root = zip_root
           /\ Exists(zip_fs, zip_result.members[i])
    /\ \A j \in DOMAIN zip_paths :
         Exists(zip_fs, zip_paths[j].rel) => zip_paths[j].root = zip_root

C31_Witness ==
  /\ zpc = "done" /\ zip_result.ok
  /\ Len(zip_result.members) = 2
  /\ \E j \in DOMAIN zip_paths : zip_paths[j] = Elsewhere

\* ------------------------------------------------------------------ wait claims
\* C13 (as claimed): _wait_for_file returns normally only if two consecutive
\* polls of the stability window observed the same non-zero size.
C13_SuccessOnlyWhenStable ==
  (wkind = "_wait_for_file" /\ woutcome = "success") => stable_seen

\* what the wait polls for was never the case during the wait
NeverMet == IF wkind = "_wait_for_file" THEN ~ever_existed ELSE ~ever_content

C15_SilentAfterDisconnect ==
  /\ [](observed => (spc = "done" /\ ~connected /\ pending # Raised))
  /\ [][observed' => sent' = sent]_vars

\* C15 witness: the disconnect was observed in mid-stream, after events were sent.
C15_Witness ==
  /\ observed /\ spc = "done"
  /\ sent # <<>> /\ Len(events) > Len(sent)
  /\ gpc = "streaming"

\* the step is the one of lines 52-55, which asks request.is_disconnected()
ChecksConnection == spc = "generating" /\ pending.kind = "event"

\* C16 (as claimed): every step of macro_stream that sends an event first
\* checks the client connection.
C16_EverySendChecked ==
  [][sent' # sent => ChecksConnection]_vars

ParserKinds == {"section_change", "message", "complete", "error"}
ImproveKinds == {"improved_prompt_chunk", "improved_prompt_complete"}

C19_ErrorIsLast ==
  \A i \in DOMAIN events : events[i].event = "error" => i = Len(events)

\* C19 witness: the backend raised in mid-stream and the generator has ended.
C19_Witness ==
  /\ gpc = "raised" /\ upstream = "stream"
  /\ Len(events) > 2 /\ events[Len(events)].event = "error"

\* ------------------------------------------------------------------ engine claim
\* C17: under every interleaving of the requests of one process, at most one
\* runMacro call is in progress.
C17_OneInvocationAtATime ==
  Cardinality(in_engine) <= 1

\* C17 witness: a call is in progress while another request, which has already
\* invoked the engine, is suspended in mid-flight.
C17_Witness ==
  \E r, q \in Requests :
    /\ r # q /\ in_engine = {r}
    /\ rpc[q] \in {"after", "waited", "save"} /\ invocations > 0

\* ------------------------------------------------------------------ upload claim
\* C20: a request without files is refused at once: no working directory is
\* created, the engine is not invoked, nothing is logged or scheduled, and the
\* answer is the "No files uploaded" client error, which is neither the
\* "no output files" failure nor a per-file entry.
C20_EmptyBatchRejected ==
  files = <<>> =>
    /\ bpc \in {"received", "responded"}
    /\ temp_dir = "none" /\ ~dir_exists
    /\ invoked = <<>> /\ error_logs = <<>> /\ background_tasks = <<>>
    /\ bpc = "responded" =>
         /\ response = [kind |-> "error", status |-> 400, detail |-> NoFilesUploaded]
         /\ response.detail # NoOutputFiles

\* C20 witness: the empty request has been answered.
C20_Witness ==
  files = <<>> /\ bpc = "responded" /\ response.status = 400

\* ------------------------------------------------------------------ parser claims
\* the delta consumed by the step
NewDelta == deltas'[Len(deltas')]

\* the event yielded by the step
NewEvent == events'[Len(events')]

\* C25: each delta consumed by generate_macro_from_prompt produces exactly one
\* event: without a transition a message event with the delta unmodified and
\* the section current at that moment, with a transition a section_change
\* event and no message.
C25_OneEventPerDelta ==
  /\ [](gpc = "streaming" => Len(events) = Len(deltas) + 1)
  /\ [][deltas' # deltas =>
          /\ Len(deltas') = Len(deltas) + 1
          /\ Len(events') = Len(events) + 1
          /\ IF current_section' # current_section
             THEN NewEvent.event = "section_change"
             ELSE NewEvent = Message(NewDelta, current_section)]_vars

C25_Witness ==
  /\ gpc = "streaming" /\ Len(deltas) = 3
  /\ events[2].event = "message" /\ events[3].event = "section_change"
  /\ events[4].event = "message" /\ events[4].data.section = "macro_script"

\* delta i caused a transition: its event is the section_change
TransitionAt(i) == events[i + 1].event = "section_change"

Transitions == Cardinality({i \in DOMAIN deltas : i < Len(events) /\ TransitionAt(i)})

\* C26: a delta triggers a transition exactly when it contains the description
\* marker, or the explanation marker, or a code fence while the section is
\* description (a fence in script or explanation triggers none); after n
\* transitions the section is the n-th successor of description in the cycle
\* description, script, explanation.
C26_TransitionRule ==
  /\ [][deltas' # deltas =>
          ((current_section' # current_section) <=>
             \/ Contains(NewDelta, DESCRIPTION)
             \/ Contains(NewDelta, EXPLANATION)
             \/ (Contains(NewDelta, FENCE) /\ current_section = "description"))]_vars
  /\ [](current_section =
          <<"description", "macro_script", "explanation">>[(Transitions % 3) + 1])

C26_Witness ==
  /\ Transitions = 3 /\ current_section = "description"
  /\ \E i \in DOMAIN events :
       /\ events[i].event = "message"
       /\ events[i].data.section = "macro_script"
       /\ Contains(events[i].data.content, FENCE)

RECURSIVE Concat(_, _, _)
\* the deltas a..b, concatenated
Concat(ds, a, b) == IF a > b THEN <<>> ELSE ds[a] \o Concat(ds, a + 1, b)

\* the first delta received after the last transition before delta i
SegmentStart(i) ==
  IF \E j \in 1..(i - 1) : TransitionAt(j)
  THEN 1 + CHOOSE j \in 1..(i - 1) :
             TransitionAt(j) /\ \A l \in (j + 1)..(i - 1) : ~TransitionAt(l)
  ELSE 1

\* C27: in a generation that ends without failure the deltas are partitioned
\* among the section_change events after the initial one: the event of the k-th
\* transition is built from exactly the deltas after the (k-1)-th transition up
\* to the one that triggered it, and the final flush from the deltas after the
\* last transition, so that none is dropped and none counted twice.
C27_DeltasPartitioned ==
  gpc \in {"completed", "ended"} =>
    /\ \A i \in DOMAIN deltas :
         TransitionAt(i) =>
           events[i + 1].data.content =
             Strip(clean_section_content(events[i + 1].data.section,
                                         Concat(deltas, SegmentStart(i), i)))
    /\ LET n == Len(deltas)
           rest == Concat(deltas, SegmentStart(n + 1), n)
       IN IF rest # <<>>
          THEN /\ Len(events) = n + 3
               /\ events[n + 2] =
                    SectionChange(current_section,
                                  clean_section_content(current_section, Strip(rest)))
          ELSE Len(events) = n + 2

C27_Witness ==
  /\ gpc = "ended" /\ Len(deltas) = 4 /\ Len(events) = 7
  /\ TransitionAt(2) /\ ~TransitionAt(1) /\ ~TransitionAt(3) /\ ~TransitionAt(4)

\* the lines of the content of the event built
EventLines == SplitLines(kevent.data.content, <<>>)

ScriptEvent == kpc = "done" /\ ksection = "macro_script"

C29_CompleteOnceAndLast ==
  IF gpc \in {"completed", "ended"}
  THEN /\ events[Len(events)] = Complete
       /\ CountKind(events, "complete") = 1
       /\ Len(events) = Len(deltas) + 2 + (IF section_content # <<>> THEN 1 ELSE 0)
       /\ section_content # <<>> =>
            /\ events[Len(events) - 1].event = "section_change"
            /\ events[Len(events) - 1].data.section = current_section
  ELSE CountKind(events, "complete") = 0

C29_Witness ==
  /\ gpc = "ended" /\ Len(deltas) = 2
  /\ section_content = <<>> /\ current_section = "explanation"
  /\ Len(events) = 4

\* ------------------------------------------------------------------ batch claims, continued
ZipFailureLogged == \E i \in DOMAIN error_logs : error_logs[i] = BatchEntry(ZipFailure)

\* C22: when outputs were collected and building the archive fails, the batch
\* ends in one server error: execute_image_macro raises the 500 of the archive
\* failure and returns no path, the failure is logged once, and the handler
\* answers that error and never starts streaming an archive.
C22_ArchiveFailureIsOneServerError ==
  ZipFailureLogged =>
    /\ output_files # <<>>
    /\ Cardinality({i \in DOMAIN error_logs : ~IsFileEntry(error_logs[i])}) = 1
    /\ result = RaisedHTTP(500, ZipFailure)
    /\ response.kind \in {"none", "error"}
    /\ response.kind = "error" => response.status = 500 /\ response.detail = ZipFailure

C22_Witness ==
  /\ ZipFailureLogged
  /\ bpc = "responded" /\ response.kind = "error"
  /\ \E k \in DOMAIN files : collected[k].exists /\ collected[k].content # <<>>

\* C23 (as claimed): cleanup of the working directory is never scheduled while
\* no archive exists on disk.
C23_ScheduledOnlyWithArchive ==
  [][background_tasks' # background_tasks => archive'.exists]_vars

\* C23 (amended): cleanup is scheduled at the exit of execute_image_macro, and
\* when the function returns an archive path the archive in the working
\* directory was confirmed to exist before cleanup was scheduled.
C23_ArchiveConfirmedWhenReturned ==
  [][background_tasks' # background_tasks =>
       /\ bpc' = "exited"
       /\ result'.kind = "returned" => (archive'.exists /\ dir_exists')]_vars

C23_Witness ==
  /\ bpc = "exited" /\ result.kind = "returned"
  /\ background_tasks = <<CleanupTask(temp_dir)>>
  /\ archive.exists

\* C24: the files of a batch are handled one after another in input order: the
\* engine is invoked at most once per file and in file order, every file before
\* the one the loop is at was handled to its end (collected, or failed), and no
\* later file has been touched.
C24_StrictlySequential ==
  /\ \A i, j \in DOMAIN invoked : i < j => invoked[i].file < invoked[j].file
  /\ \A k \in DOMAIN files :
       /\ k < idx => Handled(k)
       /\ k > idx =>
            /\ raised_at[k] = "none" /\ ~collected[k].exists
            /\ \A i \in DOMAIN invoked : invoked[i].file # k
       /\ (k = idx /\ bpc \in {"save", "render", "invoke"}) =>
            /\ ~collected[k].exists
            /\ \A i \in DOMAIN invoked : invoked[i].file # k

C24_Witness ==
  /\ Len(files) = 2 /\ idx = 2 /\ bpc = "invoke"
  /\ raised_at[1] = "invoke" /\ Len(invoked) = 1

\* C30: the working directory, and the archive in it, is not deleted before the
\* response is over: the cleanup task starts only once the archive was streamed
\* to its end (or the error was answered), the directory goes only when the
\* task's delay has passed, and the stream never finds the archive gone.
C30_NotDeletedBeforeSent ==
  /\ response.kind # "broken"
  /\ cpc \in {"sleeping", "done"} => (bpc = "responded" /\ response.kind \in {"sent", "error"})
  /\ (temp_dir # "none" /\ ~dir_exists) => cpc = "done"
  /\ (result.kind = "returned" /\ response.kind \in {"none", "streaming"}) =>
       (dir_exists /\ archive.exists)

C30_Witness ==
  /\ response.kind = "sent"
  /\ cpc = "done" /\ ~dir_exists /\ ~archive.exists

\* C33: a request that asks for macro execution with an empty script is run as
\* a batch, the engine being invoked with the template around empty text; it is
\* never handed to the plain upload.
C33_EmptyScriptStillExecuted ==
  (execute_macro /\ macro_script = "" /\ ~NoFiles) =>
    /\ bpc # "initial_upload"
    /\ \A i \in DOMAIN invoked : invoked[i].script.user_macro = ""

RECURSIVE JoinChunks(_)
\* the text the chunks spell, one after the other
JoinChunks(cs) == IF cs = <<>> THEN "" ELSE Head(cs) \o JoinChunks(Tail(cs))

\* the chunks of the improved prompt were sent, in their order, then the one
\* improved_prompt_complete event, before anything of the macro generation
ImprovementSentFirst ==
  /\ Len(sent) > Len(chunks)
  /\ \A i \in DOMAIN chunks :
       sent[i] = format_event("improved_prompt_chunk", [chunk |-> chunks[i]])
  /\ sent[Len(chunks) + 1] =
       format_event("improved_prompt_complete", [message |-> "Prompt improvement complete"])
  /\ \A i \in (Len(chunks) + 2)..Len(sent) :
       sent[i].event \notin {"improved_prompt_chunk", "improved_prompt_complete"}

\* C34: with prompt improvement the client gets every chunk, then the complete
\* event, before any event of the macro generation, and the generation is given
\* the improved prompt, which is the text all the chunks spell together.
C34_GeneratesFromImprovedPrompt ==
  (improve_prompt /\ spc = "generating") =>
    /\ ImprovementSentFirst
    /\ prompt = JoinChunks(chunks)

\* ------------------------------------------------------------------ store claims
\* handle_initial_upload has ended, by return or by raise
UploadEnded == request.kind = "upload" /\ hpc = "answered"

\* the entries are one per file and in the files' order; a file has a record in
\* the store exactly if its entry is not an error entry; the records the request
\* found are still there, nothing is left uncommitted, and one removal is
\* scheduled per file
EntriesPerFile ==
  /\ answer.status = 200
  /\ Len(answer.results) = Len(request.files)
  /\ \A i \in DOMAIN request.files :
       /\ answer.results[i].filename = request.files[i]
       /\ ("error" \in DOMAIN answer.results[i]) <=> (ImageMetadata(unique_filename(i)) \notin db)
  /\ found.db \subseteq db
  /\ session = {}
  /\ upload_tasks = [i \in DOMAIN request.files |-> i]

\* C35: handle_initial_upload returns one entry per uploaded file, in order; a
\* file that fails gets an error entry after a rollback, the records committed
\* before stay, the later files are processed, and the removal of every file's
\* temporary directory is scheduled.
C35_OneEntryPerFile == UploadEnded => EntriesPerFile

\* a deletion or a preview has been answered, no collaborator having raised, for
\* a filename of which the store held no record
AnsweredMissing ==
  /\ request.kind \in {"delete", "preview"} /\ hpc = "answered"
  /\ faults = <<>>
  /\ \A r \in found.db : r.file_name # request.filename

\* C36: delete_image and get_image_preview answer 404 for a filename without a
\* record, never 500, and leave the store and the files as they were.
C36_MissingIsNotFound ==
  AnsweredMissing =>
    /\ answer.status = 404
    /\ db = found.db /\ session = {}
    /\ disk = found.disk

\* ------------------------------------------------------------------ cleanup claim
\* C37: no failure leaves cleanup_temp_files: whether the path is gone already,
\* was removed by an earlier cleanup, or its removal raises, the task that was
\* called ends normally; a removal that succeeds leaves no path, and the path
\* is removed by nothing but a task whose delay has elapsed.
C37_CleanupNeverFails ==
  /\ [](\A t \in Tasks : sweep_pc[t] # "raised")
  /\ \A t \in Tasks : (sweep_pc[t] = "sleeping") ~> (sweep_pc[t] = "done")
  /\ [][\A t \in Tasks :
          sweep_log'[t] # sweep_log[t] =>
            /\ sweep_clock >= sweep_due[t]
            /\ sweep_pc[t] = "sleeping" /\ sweep_pc'[t] = "done"
            /\ sweep_log'[t] = "removed" <=> (sweep_target # "gone" /\ sweep_target' = "gone")
            /\ sweep_log'[t] = "warning" => sweep_target = "gone"]_vars
  /\ [][sweep_target' # sweep_target =>
          \E t \in Tasks : Awake(t) /\ sweep_log'[t] = "removed"]_vars

C37_Witness ==
  /\ \A t \in Tasks : sweep_pc[t] = "done"
  /\ \E t \in Tasks : sweep_log[t] = "error"
  /\ \E t \in Tasks : sweep_log[t] = "removed"

AttemptSteps == {"configure", "init", "headless", "import", "log"}

\* C32: initialize always ends, by return or by RuntimeError; it makes at most
\* retries attempts and starts a new one only after the wait that follows a
\* failed attempt, waits only after a failed attempt that is not the last, makes
\* no attempt after a successful one, and raises exactly when the last of the
\* retries attempts failed.
C32_BoundedRetries ==
  /\ <>(lpc \in {"initialized", "failed", "down"})
  /\ [](attempt <= retries)
  /\ [][attempt' # attempt => (lpc = "retrying" /\ attempt' = attempt + 1)]_vars
  /\ [][lpc' = "retrying" => lpc \in AttemptSteps]_vars
  /\ [][(lpc \in AttemptSteps /\ lpc' \notin AttemptSteps) =>
          /\ lpc' \in {"initialized", "retrying", "failed"}
          /\ lpc' = "failed" <=> (lpc # "log" \/ lpc' # "initialized") /\ attempt = retries
          /\ lpc' = "retrying" => attempt < retries]_vars
  /\ [][(lpc \in {"initialized", "failed", "down"}) => lpc' = "down"]_vars

C32_Witness ==
  /\ lpc = "failed" /\ attempt = retries
  /\ contexts = 2 /\ ij = 2

\* C21: whatever the attempts of initialize did, once shutdown has returned
\* every engine context an attempt created has been disposed exactly once
\* (none twice, none left behind by a later attempt that replaced the handle).
C21_EveryContextDisposedOnce ==
  (lpc = "down" /\ ij = 0) => \A c \in 1..contexts : disposals[c] = 1


Init ==
  \/ InitStream \/ InitBatch \/ InitZip \/ InitWait \/ InitEngine \/ InitLife \/ InitClean
  \/ InitStore \/ InitSweep
Next ==
  \/ StreamNext \/ BatchNext \/ ZipNext \/ WaitNext \/ EngineNext \/ LifeNext \/ CleanNext
  \/ StoreNext \/ SweepNext
Spec == Init /\ [][Next]_vars
====
